---- MODULE Spec2Model ----
(***************************************************************************)
(* Page controllers of the SDK example pages, one specification per page.  *)
(* Every page is a standalone script with module-level state, handlers     *)
(* that run to their next await in one step, and a DOM written by the      *)
(* page's render functions.  The SDK (location sources, Router,            *)
(* MapMatching, Camera) and the map widget are the environment: an SDK     *)
(* promise resolves or rejects, a synchronous SDK call returns or throws.  *)
(*                                                                         *)
(*   SpecMapMatching   src/src/map-matching.ts                             *)
(*   SpecCombined      src/src/combined-gnss.ts (GNSS + route page)          *)
(*   SpecVps           src/src/vps-location-source.ts                        *)
(*   SpecVpsScan       the same page, overlapping Start VPS Scan handlers    *)
(*   SpecRouting       src/src/routing.ts, the page with the map popup       *)
(*   SpecRouteForm     src/src/routing.ts, the page with the coordinate form *)
(*   SpecBoot          the bootstrap that waits for the map library          *)
(*   SpecDevServer     the dev server configuration (vite)                   *)
(***************************************************************************)
EXTENDS Integers, Sequences, FiniteSets, TLC

\* ------------------------------------------------------------------ bounds
\* Handler invocations of one kind suspended at an await at the same time.
MaxPending == 1
\* Distinct coordinates a pose position or a map click can carry.
MaxCoord == 2
\* Distinct itineraries the SDK can hand back.
MaxItin == 2
\* Cap on the pose-update counter shown by the pages.
MaxUpdates == 2

\* Destination markers constructed on one page.
MaxMarkers == 2
\* Distinct floor levels a destination can carry.
MaxLevel == 1
\* handleStartVPSScan invocations that can be suspended at the same time.
MaxScans == 2
\* Camera instances that can be unreleased at the same time.
MaxCameras == 2
\* router.directions() calls that can be awaited at the same time.
MaxCalc == 2
\* Ports after the configured one that other processes can hold.
MaxPortOffset == 2

\* ------------------------------------------------------------------ values
\* JS null for a string-valued variable (error messages, source ids).
Null == "null"
\* Error messages an SDK call can fail with; no handler looks into the message.
Errors == {"e1"}

\* Pose: the position is optional (0 = absent).  {} is NoPose.
NoPose == [position |-> 0]
Poses == [position : 0..MaxCoord]
HasPosition(p) == p.position # 0

\* Itinerary: id 0 is null; ncoords is coords.length.
NoItinerary == [id |-> 0, ncoords |-> 0]
Itineraries == [id : 1..MaxItin, ncoords : {0, 2}]

\* Destination: coord 0 is null; level 0 is null.
NoDestination == [coord |-> 0, level |-> 0]
Scans == 1..MaxScans
\* server.port of the dev server.
DevPort == 4200
\* The ports other processes can hold: DevPort and the MaxPortOffset after it.
WatchedPorts == DevPort..(DevPort + MaxPortOffset)

\* ------------------------------------------------------------------- state
VARIABLES
  coreInitialized,   \* let coreInitialized
  coreInit,          \* SDK side: await core.init(): "pending", "resolved" or "rejected"
  isStarted,         \* SDK side: the location source is started
  gnssPose,          \* let gnssPose: Pose = {}
  gnssUpdateCount,   \* let gnssUpdateCount
  gnssRunning,       \* let gnssRunning
  gnssError,         \* let gnssError: string | null
  currentItinerary,  \* let currentItinerary
  itineraryInfo,     \* let itineraryInfo: string (id of the itinerary it describes, 0 = 'No itinerary set')
  mmItinerary,       \* SDK side: MapMatching.getItinerary()
  map,               \* let map: "null" or "map"
  loadFired,         \* the map's 'load' event has been dispatched
  mapLoaded,         \* what map.loaded() returns now
  routeSourceId,     \* let itinerarySourceId / routeSourceId
  srcData,           \* map side: the itinerary held by the route source (NoItinerary: no source)
  hasLayer,          \* map side: the route layer exists
  userMarker,        \* let userMarker: 0 = null, else the marker constructed at that position
  userMarkerPos,     \* map side: where the user marker is
  userMarkerNew,     \* how many times a user marker was constructed
  startPending,      \* handleStart... invocations suspended at await source.start()
  stopPending,       \* handleStop... invocations suspended at await source.stop()
  destinationCoords,     \* let destinationCoords: { lat, lon, level } | null
  destinationMarker,     \* let destinationMarker: 0 = null, else the n-th marker constructed
  destinationMarkerNew,  \* how many times a destination marker was constructed
  isCalculatingRoute,    \* let isCalculatingRoute
  routeError,            \* let routeError: string | null
  imItinerary,           \* SDK side: itineraryInfoManager.itinerary
  calcPending,           \* calculateRoute invocations suspended at await router.directions()
  vpsPose,           \* let vpsPose: Pose = {}
  vpsUpdateCount,    \* let vpsUpdateCount
  vpsError,          \* let vpsError: string | null
  isScanning,        \* let isScanning
  camera,            \* let camera: 0 = null, else the Camera instance it refers to
  liveCameras,       \* SDK side: the Camera instances constructed and not released
  cameraState,       \* SDK side: camera.state
  scanPc,            \* where each handleStartVPSScan invocation stands ("idle": none)
  stopScanPc,        \* where the handleStopVPSScan invocation stands ("idle": none)
  vpsRunning,        \* let vpsRunning (map-matching page fed by VPSLocationSource)
  stopVpsPc,         \* where that page's handleStopVPS invocation stands ("idle": none)
  dom,               \* what the page displays (written by the render functions)
  ev,                \* the handler step taken last
  alerted,           \* that step raised a browser alert()
  thrown,            \* that step let an exception escape its handler
  delivered,         \* the value that step was about: the pose or itinerary the SDK
                     \* handed over, the itinerary a clear took off the map, the
                     \* content of the level field the step read (NoPose: none)
  maplibregl,        \* typeof window.maplibregl !== 'undefined'
  mapContainer,      \* let mapContainer is set (the container element exists)
  bootPc,            \* bootstrap: "initial" (first check pending), "polling", "done"
  checkMapLibre,     \* the polling interval is active
  stopTimer,         \* the timeout that clears the interval is pending
  ticks,             \* how many times the interval callback has run
  mapNew,            \* how many times the bootstrap constructed a map widget
  libLoadedAt,       \* when the library became available: "never", "initial" (by the
                     \* first check), "polling" (before the timeout fired), "late"
  libLoadedTick,     \* the value of ticks when it became available
  router,            \* let router: Router | null (TRUE: constructed)
  testPosition,      \* let testPosition: 0 = null, else the position
  navigationInfo,    \* let navigationInfo: NoNav = null
  originPosition,    \* let originPosition: 0 = null, else the position
  destinationPosition,   \* let destinationPosition: 0 = null, else the position
  originMarker,      \* let originMarker: 0 = null, else where the marker is
  testPositionMarker,    \* let testPositionMarker: 0 = null, else where the marker is
  popup,             \* routing page: the open popup (NoPopup: none)
  calls,             \* routing page: the router.directions() calls awaited, oldest first
  latest,            \* routing page: the most recent calculateRoute() request and how it ended
  certExists,        \* dev server: .certs/cert.pem exists
  keyExists,         \* dev server: .certs/key.pem exists
  httpsConfig,       \* dev server: const httpsConfig is defined (FALSE: undefined)
  serverPc,          \* dev server: "config", "probing" or "listening"
  serverPort,        \* dev server: the port probed or listened on (0: none yet)
  serverHttps,       \* dev server: the pages are served over HTTPS
  portsTaken         \* ports held by other processes

coreVars == <<coreInitialized, coreInit>>
srcVars == <<coreVars, isStarted, gnssPose, gnssUpdateCount, gnssRunning, gnssError>>
itinVars == <<currentItinerary, itineraryInfo, mmItinerary>>
mapVars == <<map, loadFired, mapLoaded>>
routeVars == <<routeSourceId, srcData, hasLayer>>
userVars == <<userMarker, userMarkerPos, userMarkerNew>>
pendVars == <<startPending, stopPending>>
obsVars == <<dom, ev, alerted, thrown, delivered>>
destVars == <<destinationCoords, destinationMarker, destinationMarkerNew>>
calcVars == <<isCalculatingRoute, routeError, imItinerary, calcPending>>
vpsVars == <<vpsPose, vpsUpdateCount, vpsError, isScanning, camera, liveCameras, cameraState,
             scanPc, stopScanPc>>
bootVars == <<maplibregl, mapContainer, bootPc, checkMapLibre, stopTimer, ticks, mapNew,
              libLoadedAt, libLoadedTick>>
rtVars == <<router, testPosition, navigationInfo, originPosition, destinationPosition,
            originMarker, testPositionMarker, popup, calls, latest>>
mvVars == <<vpsRunning, stopVpsPc>>
devVars == <<certExists, keyExists, httpsConfig, serverPc, serverPort, serverHttps, portsTaken>>
vars == <<srcVars, itinVars, mapVars, routeVars, userVars, pendVars, obsVars, destVars, calcVars,
          vpsVars, mvVars, bootVars, rtVars, devVars>>

\* What the map-matching page has no use for.
idleMM == <<destVars, calcVars, vpsVars, bootVars, rtVars, devVars,
            mvVars>>
\* What the combined GNSS page has no use for.
idleCB == <<coreVars, gnssUpdateCount, itineraryInfo, stopPending, vpsVars, bootVars, rtVars,
            devVars,
            mvVars>>
\* What the VPS page has no use for.
idleVPS == <<coreVars, gnssPose, gnssUpdateCount, gnssRunning, gnssError, itinVars, mapVars,
             routeVars, userVars, destVars, calcVars, bootVars, rtVars, devVars,
            mvVars>>
\* What the bootstrap leaves alone.
idleBoot == <<srcVars, itinVars, loadFired, mapLoaded, routeVars, userVars, pendVars, obsVars,
              destVars, calcVars, vpsVars, rtVars, devVars,
            mvVars>>
\* What the routing page with the coordinate form has no use for.
idleRF == <<isStarted, gnssPose, gnssUpdateCount, gnssRunning, gnssError, itineraryInfo,
            mmItinerary, userVars, pendVars, destinationCoords, destinationMarkerNew,
            imItinerary, vpsVars, bootVars, originPosition, destinationPosition, popup,
            calls, latest, devVars,
            mvVars>>
\* What the routing page with the map popup has no use for.
idleRT == <<isStarted, gnssPose, gnssUpdateCount, gnssRunning, gnssError, itineraryInfo,
            mmItinerary, userVars, pendVars, destinationCoords, destinationMarkerNew,
            calcPending, vpsVars, bootVars, devVars,
            mvVars>>
\* What the map-matching page fed by VPSLocationSource has no use for.
idleMV == <<coreVars, isStarted, gnssPose, gnssUpdateCount, gnssRunning, gnssError, itinVars,
            stopPending, destVars, calcVars, bootVars, rtVars, devVars>>
\* What the dev server has no part in: the pages.
idleDev == <<srcVars, itinVars, mapVars, routeVars, userVars, pendVars, dom, destVars, calcVars,
             vpsVars, bootVars, rtVars,
            mvVars>>

\* ------------------------------------------------------- map view binding
\* updateMapItinerary, first branch: no map, map.loaded() false or no itinerary:
\* an existing route is removed, nothing is drawn.
RemoveRoute ==
  IF routeSourceId # Null /\ srcData # NoItinerary
  THEN /\ routeSourceId' = Null
       /\ srcData' = NoItinerary
       /\ hasLayer' = FALSE
  ELSE UNCHANGED routeVars

\* updateMapItinerary(): it is the value of currentItinerary at the call,
\* loaded the value map.loaded() returns at the call.
updateMapItinerary(it, loaded) ==
  IF map = Null \/ ~loaded \/ it = NoItinerary
  THEN RemoveRoute
  ELSE IF it.ncoords = 0
       THEN UNCHANGED routeVars
       ELSE /\ routeSourceId' = "route-source"
            /\ srcData' = it
            /\ hasLayer' = TRUE

\* A binding that drops the user marker and constructs a new one on every update.
updateMapUserPositionRecreating(p, loaded) ==
  IF map = Null \/ ~loaded \/ ~HasPosition(p)
  THEN UNCHANGED userVars
  ELSE /\ userMarker' = p.position
       /\ userMarkerPos' = p.position
       /\ userMarkerNew' = userMarkerNew + 1

\* updateMapUserPosition(): creates the user marker once, then repositions it.
updateMapUserPosition(p, loaded) ==
  IF map = Null \/ ~loaded \/ ~HasPosition(p)
  THEN UNCHANGED userVars
  ELSE IF userMarker = 0
       THEN /\ userMarker' = p.position
            /\ userMarkerPos' = p.position
            /\ userMarkerNew' = userMarkerNew + 1
       ELSE /\ userMarkerPos' = p.position
            /\ UNCHANGED <<userMarker, userMarkerNew>>

\* --------------------------------------------------- map-matching.ts page
\* updateUI(): the template of contentContainer.innerHTML.  The start and
\* stop buttons carry no disabled attribute in this page.
RenderMM(core, running, err, p, cnt, mmIt, info) ==
  [ coreStatus   |-> IF core THEN "Yes" ELSE "No",
    status       |-> IF running THEN "Running" ELSE "Stopped",
    updates      |-> cnt,
    error        |-> err,
    pose         |-> p,
    startDisabled |-> FALSE,
    stopDisabled  |-> FALSE,
    mmStatus     |-> IF mmIt # NoItinerary THEN "Active" ELSE "Inactive",
    itinInfo     |-> IF mmIt # NoItinerary THEN info ELSE 0,
    setRouteDisabled |-> ~HasPosition(p) ]

Observe(e, a, t) ==
  /\ ev' = e
  /\ alerted' = a
  /\ thrown' = t
  /\ delivered' = NoPose

\* A step that was about the value v and raised nothing.
ObserveValue(e, v) ==
  /\ ev' = e
  /\ alerted' = FALSE
  /\ thrown' = FALSE
  /\ delivered' = v

\* A step that was about the value v and raised a browser alert().
ObserveAlert(e, v) ==
  /\ ev' = e
  /\ alerted' = TRUE
  /\ thrown' = FALSE
  /\ delivered' = v

\* Click on Start GNSS Source: handleStartGNSS runs to await start().
MM_ClickStart ==
  /\ ~dom.startDisabled
  /\ startPending < MaxPending
  /\ startPending' = startPending + 1
  /\ Observe("click", FALSE, FALSE)
  /\ UNCHANGED <<srcVars, itinVars, mapVars, routeVars, userVars, stopPending, dom>>
  /\ UNCHANGED idleMM

\* gnssWifiLocationSource.start() resolved.
MM_StartResolved ==
  /\ startPending > 0
  /\ startPending' = startPending - 1
  /\ isStarted' = TRUE
  /\ gnssRunning' = TRUE
  /\ gnssError' = Null
  /\ dom' = RenderMM(coreInitialized, TRUE, Null, gnssPose, gnssUpdateCount, mmItinerary, itineraryInfo)
  /\ Observe("startOk", FALSE, FALSE)
  /\ UNCHANGED <<coreVars, gnssPose, gnssUpdateCount, itinVars, mapVars, routeVars, userVars, stopPending>>
  /\ UNCHANGED idleMM

\* gnssWifiLocationSource.start() rejected with e.
MM_StartRejected(e) ==
  /\ startPending > 0
  /\ startPending' = startPending - 1
  /\ gnssError' = e
  /\ dom' = RenderMM(coreInitialized, gnssRunning, e, gnssPose, gnssUpdateCount, mmItinerary, itineraryInfo)
  /\ Observe("startFailed", TRUE, FALSE)
  /\ UNCHANGED <<coreVars, isStarted, gnssPose, gnssUpdateCount, gnssRunning, itinVars, mapVars, routeVars, userVars, stopPending>>
  /\ UNCHANGED idleMM

\* Click on Stop GNSS Source: handleStopGNSS runs to await stop().
MM_ClickStop ==
  /\ ~dom.stopDisabled
  /\ stopPending < MaxPending
  /\ stopPending' = stopPending + 1
  /\ Observe("click", FALSE, FALSE)
  /\ UNCHANGED <<srcVars, itinVars, mapVars, routeVars, userVars, startPending, dom>>
  /\ UNCHANGED idleMM

\* gnssWifiLocationSource.stop() resolved.
MM_StopResolved ==
  /\ stopPending > 0
  /\ stopPending' = stopPending - 1
  /\ isStarted' = FALSE
  /\ gnssRunning' = FALSE
  /\ gnssError' = Null
  /\ dom' = RenderMM(coreInitialized, FALSE, Null, gnssPose, gnssUpdateCount, mmItinerary, itineraryInfo)
  /\ Observe("stopOk", FALSE, FALSE)
  /\ UNCHANGED <<coreVars, gnssPose, gnssUpdateCount, itinVars, mapVars, routeVars, userVars, startPending>>
  /\ UNCHANGED idleMM

\* gnssWifiLocationSource.stop() rejected with e: stored and rendered, no alert.
MM_StopRejected(e) ==
  /\ stopPending > 0
  /\ stopPending' = stopPending - 1
  /\ gnssError' = e
  /\ dom' = RenderMM(coreInitialized, gnssRunning, e, gnssPose, gnssUpdateCount, mmItinerary, itineraryInfo)
  /\ Observe("stopFailed", FALSE, FALSE)
  /\ UNCHANGED <<coreVars, isStarted, gnssPose, gnssUpdateCount, gnssRunning, itinVars, mapVars, routeVars, userVars, startPending>>
  /\ UNCHANGED idleMM

\* gnssWifiLocationSource.onUpdate callback (map-matching.ts).
MM_OnUpdate(p) ==
  /\ isStarted
  /\ gnssUpdateCount < MaxUpdates
  /\ gnssPose' = p
  /\ gnssUpdateCount' = gnssUpdateCount + 1
  /\ dom' = RenderMM(coreInitialized, gnssRunning, gnssError, p, gnssUpdateCount + 1, mmItinerary, itineraryInfo)
  /\ updateMapUserPosition(p, mapLoaded)
  /\ ObserveValue("onUpdate", p)
  /\ UNCHANGED <<coreVars, isStarted, gnssRunning, gnssError, itinVars, mapVars, routeVars, pendVars>>
  /\ UNCHANGED idleMM

\* gnssWifiLocationSource.onError callback.
MM_OnError(e) ==
  /\ isStarted
  /\ gnssError' = e
  /\ dom' = RenderMM(coreInitialized, gnssRunning, e, gnssPose, gnssUpdateCount, mmItinerary, itineraryInfo)
  /\ Observe("onError", FALSE, FALSE)
  /\ UNCHANGED <<coreVars, isStarted, gnssPose, gnssUpdateCount, gnssRunning, itinVars, mapVars, routeVars, userVars, pendVars>>
  /\ UNCHANGED idleMM

\* createAndSetItinerary(from, to): what the two SDK calls do decides the outcome.
\*   "throwCreate": Itinerary.fromOrderedCoordinates throws
\*   "throwSet":    MapMatching.setItinerary throws
\*   "ok":          both return
createAndSetItinerary(it, outcome) ==
  CASE outcome = "throwCreate" ->
         /\ Observe("createFailed", TRUE, FALSE)
         /\ UNCHANGED <<itinVars, routeVars, dom>>
    [] outcome = "throwSet" ->
         /\ currentItinerary' = it
         /\ Observe("createFailed", TRUE, FALSE)
         /\ UNCHANGED <<itineraryInfo, mmItinerary, routeVars, dom>>
    [] OTHER ->
         /\ currentItinerary' = it
         /\ mmItinerary' = it
         /\ itineraryInfo' = it.id
         /\ dom' = RenderMM(coreInitialized, gnssRunning, gnssError, gnssPose, gnssUpdateCount, it, it.id)
         /\ updateMapItinerary(it, mapLoaded)
         /\ ObserveValue("createOk", it)

\* Click on Set Route from Current Position: createItineraryFromCurrentPosition().
MM_SetRouteFromPosition(it, outcome) ==
  /\ ~dom.setRouteDisabled
  /\ IF ~HasPosition(gnssPose)
     THEN /\ Observe("createNoPosition", TRUE, FALSE)
          /\ UNCHANGED <<itinVars, routeVars, dom>>
     ELSE createAndSetItinerary(it, outcome)
  /\ UNCHANGED <<srcVars, mapVars, userVars, pendVars>>
  /\ UNCHANGED idleMM

\* A clear that resets the page state and the display but leaves the map alone.
MM_ClearItineraryKeepsRoute ==
  /\ mmItinerary' = NoItinerary
  /\ currentItinerary' = NoItinerary
  /\ itineraryInfo' = 0
  /\ dom' = RenderMM(coreInitialized, gnssRunning, gnssError, gnssPose, gnssUpdateCount, NoItinerary, 0)
  /\ ObserveValue("clear", srcData)
  /\ UNCHANGED <<srcVars, mapVars, routeVars, userVars, pendVars>>
  /\ UNCHANGED idleMM

\* Click on Clear Itinerary: handleClearItinerary().
MM_ClearItinerary ==
  /\ mmItinerary' = NoItinerary
  /\ currentItinerary' = NoItinerary
  /\ itineraryInfo' = 0
  /\ dom' = RenderMM(coreInitialized, gnssRunning, gnssError, gnssPose, gnssUpdateCount, NoItinerary, 0)
  /\ updateMapItinerary(NoItinerary, mapLoaded)
  /\ ObserveValue("clear", srcData)
  /\ UNCHANGED <<srcVars, mapVars, userVars, pendVars>>
  /\ UNCHANGED idleMM

\* Bootstrap reaches initializeMap() with the map library present: new maplibregl.Map.
MM_InitializeMap ==
  /\ map = Null
  /\ map' = "map"
  /\ Observe("env", FALSE, FALSE)
  /\ UNCHANGED <<srcVars, itinVars, loadFired, mapLoaded, routeVars, userVars, pendVars, dom>>
  /\ UNCHANGED idleMM

\* The map's 'load' event: updateMapUserPosition(); updateMapItinerary().
MM_MapLoad ==
  /\ map # Null
  /\ ~loadFired
  /\ loadFired' = TRUE
  /\ mapLoaded' = TRUE
  /\ updateMapUserPosition(gnssPose, TRUE)
  /\ updateMapItinerary(currentItinerary, TRUE)
  /\ Observe("mapLoad", FALSE, FALSE)
  /\ UNCHANGED <<srcVars, itinVars, map, pendVars, dom>>
  /\ UNCHANGED idleMM

\* The map widget starts loading a source or tiles: map.loaded() turns false.
MapBusy ==
  /\ loadFired
  /\ mapLoaded
  /\ mapLoaded' = FALSE
  /\ Observe("env", FALSE, FALSE)
  /\ UNCHANGED <<srcVars, itinVars, map, loadFired, routeVars, userVars, pendVars, dom>>
  /\ UNCHANGED idleMM

\* The map widget finished loading: map.loaded() turns true, no 'load' event again.
MapIdle ==
  /\ loadFired
  /\ ~mapLoaded
  /\ mapLoaded' = TRUE
  /\ Observe("env", FALSE, FALSE)
  /\ UNCHANGED <<srcVars, itinVars, map, loadFired, routeVars, userVars, pendVars, dom>>
  /\ UNCHANGED idleMM

\* ---------------------------------------- combined-gnss.ts page (GNSS + route)
\* Number("abc"): not a number.
NaN == -1
\* What the destination-level field can hold: nothing, text that is no
\* number, or the decimal digits of a level.
LevelInputs ==
  {[text |-> "empty", n |-> 0], [text |-> "junk", n |-> 0]}
    \cup {[text |-> "number", n |-> k] : k \in 1..MaxLevel}
\* parseInt(value, 10); never reached with the empty string.
parseInt(v) == IF v.text = "number" THEN v.n ELSE NaN
\* levelInput && levelInput.value !== '' ? parseInt(levelInput.value, 10) : null
readLevel(v) == IF v.text # "empty" THEN parseInt(v) ELSE 0
\* isNaN(level) ? null : level
levelOrNull(l) == IF l = NaN THEN 0 ELSE l

\* Navigation info panel: hidden, or the info of an itinerary at a position.
NoNav == [itin |-> 0, pos |-> 0]
\* Routing page: no popup on the map.
NoPopup == [open |-> FALSE, at |-> 0, test |-> FALSE]
\* Routing page: no calculateRoute() request made yet.
NoCall == [from |-> 0, to |-> 0, status |-> "none"]
\* Error thrown by calculateRoute itself when directions returns [].
NoRouteFound == "No route found"

\* The page's render functions; each rewrites its own elements of the display d.
updatePositionDisplay(d, p) == [d EXCEPT !.position = p.position]

updateErrorDisplay(d, ge, re) == [d EXCEPT !.error = ge, !.routeError = re]

updateDestinationInfo(d, dc) == [d EXCEPT !.destination = dc]

updateItineraryInfo(d, it) == [d EXCEPT !.itinShown = (it # NoItinerary)]

updateButtonStates(d, running, dc, calc) ==
  [d EXCEPT !.startDisabled = running,
            !.startItineraryDisabled = (~running \/ dc = NoDestination \/ calc),
            !.startItineraryText = IF calc THEN "Calculating..." ELSE "Start Itinerary",
            !.updateLevelDisabled = (dc = NoDestination)]

\* itineraryInfoManager.getInfo() returns the info of the manager's itinerary
\* at the position; a manager without an itinerary has none.
updateNavigationInfo(d, it, p, imIt) ==
  [d EXCEPT !.nav = IF it = NoItinerary \/ ~HasPosition(p) \/ imIt = NoItinerary
                    THEN NoNav
                    ELSE [itin |-> imIt.id, pos |-> p.position]]

\* The six render calls of the bootstrap on the initial state.
RenderCB ==
  [ position |-> 0, error |-> Null, routeError |-> Null, destination |-> NoDestination,
    itinShown |-> FALSE, startDisabled |-> FALSE, startItineraryDisabled |-> TRUE,
    startItineraryText |-> "Start Itinerary", updateLevelDisabled |-> TRUE, nav |-> NoNav ]

\* updateMapRoute(): it is currentItinerary at the call, loaded what map.loaded() returns.
updateMapRoute(it, loaded) ==
  IF map = Null \/ ~loaded \/ it = NoItinerary
  THEN IF routeSourceId # Null /\ srcData # NoItinerary
       THEN /\ routeSourceId' = Null
            /\ srcData' = NoItinerary
            /\ hasLayer' = FALSE
       ELSE UNCHANGED routeVars
  ELSE IF it.ncoords = 0
       THEN UNCHANGED routeVars
       ELSE /\ routeSourceId' = "route-source"
            /\ srcData' = it
            /\ hasLayer' = TRUE

\* Click on Start GNSS: handleStartGNSS runs to its await.
CB_ClickStartGNSS ==
  /\ ~dom.startDisabled
  /\ startPending < MaxPending
  /\ startPending' = startPending + 1
  /\ Observe("click", FALSE, FALSE)
  /\ UNCHANGED <<isStarted, gnssPose, gnssRunning, gnssError, currentItinerary, mmItinerary>>
  /\ UNCHANGED <<mapVars, routeVars, userVars, dom, destVars, calcVars, idleCB>>

\* gnssLocationSource.start() resolved.
CB_StartResolved ==
  /\ startPending > 0
  /\ startPending' = startPending - 1
  /\ isStarted' = TRUE
  /\ gnssRunning' = TRUE
  /\ gnssError' = Null
  /\ dom' = updateErrorDisplay(updateButtonStates(dom, TRUE, destinationCoords, isCalculatingRoute),
                               Null, routeError)
  /\ Observe("startOk", FALSE, FALSE)
  /\ UNCHANGED <<gnssPose, currentItinerary, mmItinerary>>
  /\ UNCHANGED <<mapVars, routeVars, userVars, destVars, calcVars, idleCB>>

\* requestPermission() or gnssLocationSource.start() rejected with e.
CB_StartRejected(e) ==
  /\ startPending > 0
  /\ startPending' = startPending - 1
  /\ gnssError' = e
  /\ dom' = updateButtonStates(updateErrorDisplay(dom, e, routeError),
                               gnssRunning, destinationCoords, isCalculatingRoute)
  /\ Observe("startFailed", TRUE, FALSE)
  /\ UNCHANGED <<isStarted, gnssPose, gnssRunning, currentItinerary, mmItinerary>>
  /\ UNCHANGED <<mapVars, routeVars, userVars, destVars, calcVars, idleCB>>

\* An onUpdate that merges: a pose without position keeps the previous position.
CB_OnUpdateMerging(p) ==
  /\ isStarted
  /\ gnssPose' = (IF HasPosition(p) THEN p ELSE gnssPose)
  /\ dom' = updateNavigationInfo(
              updateButtonStates(updatePositionDisplay(dom, gnssPose'),
                                 gnssRunning, destinationCoords, isCalculatingRoute),
              currentItinerary, gnssPose', imItinerary)
  /\ updateMapUserPosition(gnssPose', mapLoaded)
  /\ ObserveValue("onUpdate", p)
  /\ UNCHANGED <<isStarted, gnssRunning, gnssError, currentItinerary, mmItinerary>>
  /\ UNCHANGED <<mapVars, routeVars, startPending, destVars, calcVars, idleCB>>

\* An onUpdate whose updateButtonStates() forgets the calculation in flight.
CB_OnUpdateReenabling(p) ==
  /\ isStarted
  /\ gnssPose' = p
  /\ dom' = updateNavigationInfo(
              updateButtonStates(updatePositionDisplay(dom, p),
                                 gnssRunning, destinationCoords, FALSE),
              currentItinerary, p, imItinerary)
  /\ updateMapUserPosition(p, mapLoaded)
  /\ ObserveValue("onUpdate", p)
  /\ UNCHANGED <<isStarted, gnssRunning, gnssError, currentItinerary, mmItinerary>>
  /\ UNCHANGED <<mapVars, routeVars, startPending, destVars, calcVars, idleCB>>

\* gnssLocationSource.onUpdate callback (combined-gnss.ts).
CB_OnUpdate(p) ==
  /\ isStarted
  /\ gnssPose' = p
  /\ dom' = updateNavigationInfo(
              updateButtonStates(updatePositionDisplay(dom, p),
                                 gnssRunning, destinationCoords, isCalculatingRoute),
              currentItinerary, p, imItinerary)
  /\ updateMapUserPosition(p, mapLoaded)
  /\ ObserveValue("onUpdate", p)
  /\ UNCHANGED <<isStarted, gnssRunning, gnssError, currentItinerary, mmItinerary>>
  /\ UNCHANGED <<mapVars, routeVars, startPending, destVars, calcVars, idleCB>>

\* gnssLocationSource.onError callback.
CB_OnError(e) ==
  /\ isStarted
  /\ gnssError' = e
  /\ dom' = updateErrorDisplay(dom, e, routeError)
  /\ Observe("onError", FALSE, FALSE)
  /\ UNCHANGED <<isStarted, gnssPose, gnssRunning, currentItinerary, mmItinerary>>
  /\ UNCHANGED <<mapVars, routeVars, userVars, startPending, destVars, calcVars, idleCB>>

\* setDestination(lat, lon, level): the destination marker is removed and a
\* new one constructed on every call.
setDestination(c, l) ==
  /\ destinationMarkerNew < MaxMarkers
  /\ destinationCoords' = [coord |-> c, level |-> l]
  /\ destinationMarker' = destinationMarkerNew + 1
  /\ destinationMarkerNew' = destinationMarkerNew + 1
  /\ dom' = updateButtonStates(updateDestinationInfo(dom, [coord |-> c, level |-> l]),
                               gnssRunning, [coord |-> c, level |-> l], isCalculatingRoute)

\* A click handler that sets the destination whatever the location source has
\* delivered.
CB_MapClickUnchecked(c, v) ==
  /\ map # Null
  /\ IF ~mapLoaded
     THEN /\ Observe("mapClickIgnored", FALSE, FALSE)
          /\ UNCHANGED <<destVars, dom>>
     ELSE /\ setDestination(c, levelOrNull(readLevel(v)))
          /\ ObserveValue("setDestination", v)
  /\ UNCHANGED <<isStarted, gnssPose, gnssRunning, gnssError, currentItinerary, mmItinerary>>
  /\ UNCHANGED <<mapVars, routeVars, userVars, startPending, calcVars, idleCB>>

\* map.on('click'): c is where the user clicked, v what the level field holds.
CB_MapClick(c, v) ==
  /\ map # Null
  /\ IF ~mapLoaded
     THEN /\ Observe("mapClickIgnored", FALSE, FALSE)
          /\ UNCHANGED <<destVars, dom>>
     ELSE IF ~gnssRunning \/ ~HasPosition(gnssPose)
          THEN /\ Observe("mapClickRefused", TRUE, FALSE)
               /\ UNCHANGED <<destVars, dom>>
          ELSE /\ setDestination(c, levelOrNull(readLevel(v)))
               /\ ObserveValue("setDestination", v)
  /\ UNCHANGED <<isStarted, gnssPose, gnssRunning, gnssError, currentItinerary, mmItinerary>>
  /\ UNCHANGED <<mapVars, routeVars, userVars, startPending, calcVars, idleCB>>

\* A calculateRoute() that goes to router.directions() without looking at the
\* pose and the destination.
CB_ClickStartItineraryUnchecked ==
  /\ ~dom.startItineraryDisabled
  /\ calcPending < MaxCalc
  /\ isCalculatingRoute' = TRUE
  /\ routeError' = Null
  /\ calcPending' = calcPending + 1
  /\ dom' = updateErrorDisplay(
              updateButtonStates(dom, gnssRunning, destinationCoords, TRUE),
              gnssError, Null)
  /\ Observe("calcStart", FALSE, FALSE)
  /\ UNCHANGED <<isStarted, gnssPose, gnssRunning, gnssError, currentItinerary, mmItinerary>>
  /\ UNCHANGED <<mapVars, routeVars, userVars, startPending, destVars, imItinerary, idleCB>>

\* Click on Start Itinerary: calculateRoute() runs to await router.directions().
CB_ClickStartItinerary ==
  /\ ~dom.startItineraryDisabled
  /\ calcPending < MaxCalc
  /\ IF ~HasPosition(gnssPose) \/ destinationCoords = NoDestination
     THEN /\ Observe("clickRefused", TRUE, FALSE)
          /\ UNCHANGED <<isCalculatingRoute, routeError, calcPending, dom>>
     ELSE /\ isCalculatingRoute' = TRUE
          /\ routeError' = Null
          /\ calcPending' = calcPending + 1
          /\ dom' = updateErrorDisplay(
                      updateButtonStates(dom, gnssRunning, destinationCoords, TRUE),
                      gnssError, Null)
          /\ Observe("calcStart", FALSE, FALSE)
  /\ UNCHANGED <<isStarted, gnssPose, gnssRunning, gnssError, currentItinerary, mmItinerary>>
  /\ UNCHANGED <<mapVars, routeVars, userVars, startPending, destVars, imItinerary, idleCB>>

\* finally { isCalculatingRoute = false; updateButtonStates(); updateErrorDisplay(); }
\* re is the value of routeError when the finally block runs.
routeFinally(re) ==
  /\ isCalculatingRoute' = FALSE
  /\ routeError' = re
  /\ dom' = updateErrorDisplay(
              updateButtonStates(dom, gnssRunning, destinationCoords, FALSE),
              gnssError, re)

\* A failure path that also resets the page to "no route".
routeFailureClearing(e) ==
  /\ routeFinally(e)
  /\ Observe("routeFailed", TRUE, FALSE)
  /\ currentItinerary' = NoItinerary
  /\ updateMapRoute(NoItinerary, mapLoaded)
  /\ UNCHANGED <<mmItinerary, imItinerary>>

\* catch + finally of calculateRoute when no itinerary was obtained: directions
\* rejected with e, or returned [] and the handler threw 'No route found'.
routeFailure(e) ==
  /\ routeFinally(e)
  /\ Observe("routeFailed", TRUE, FALSE)
  /\ UNCHANGED <<currentItinerary, mmItinerary, imItinerary, routeVars>>

\* router.directions() rejected with e.
CB_RouteRejected(e) ==
  /\ calcPending > 0
  /\ calcPending' = calcPending - 1
  /\ routeFailure(e)
  /\ UNCHANGED <<isStarted, gnssPose, gnssRunning, gnssError>>
  /\ UNCHANGED <<mapVars, userVars, startPending, destVars, idleCB>>

\* router.directions() resolved with the list its.  outcome is "ok", or the
\* message MapMatching.setItinerary throws with.
CB_RouteResolved(its, outcome) ==
  /\ calcPending > 0
  /\ calcPending' = calcPending - 1
  /\ IF Len(its) = 0
     THEN routeFailure(NoRouteFound)
     ELSE IF outcome # "ok"
          THEN /\ currentItinerary' = its[1]
               /\ routeFinally(outcome)
               /\ Observe("routeSetFailed", TRUE, FALSE)
               /\ UNCHANGED <<mmItinerary, imItinerary, routeVars>>
          ELSE /\ currentItinerary' = its[1]
               /\ mmItinerary' = its[1]
               /\ imItinerary' = its[1]
               /\ updateMapRoute(its[1], mapLoaded)
               /\ isCalculatingRoute' = FALSE
               /\ routeError' = routeError
               /\ dom' = updateErrorDisplay(
                           updateButtonStates(
                             updateNavigationInfo(updateItineraryInfo(dom, its[1]),
                                                  its[1], gnssPose, its[1]),
                             gnssRunning, destinationCoords, FALSE),
                           gnssError, routeError)
               /\ ObserveValue("routeOk", its[1])
  /\ UNCHANGED <<isStarted, gnssPose, gnssRunning, gnssError>>
  /\ UNCHANGED <<mapVars, userVars, startPending, destVars, idleCB>>

\* Click on Update Level: handleUpdateDestinationLevel().
CB_ClickUpdateLevel(v) ==
  /\ ~dom.updateLevelDisabled
  /\ IF destinationCoords = NoDestination
     THEN /\ Observe("levelNoDestination", TRUE, FALSE)
          /\ UNCHANGED <<destinationCoords, dom>>
     ELSE IF v.text # "empty" /\ parseInt(v) = NaN
          THEN /\ ObserveAlert("levelRefused", v)
               /\ UNCHANGED <<destinationCoords, dom>>
          ELSE /\ destinationCoords' = [destinationCoords EXCEPT !.level = levelOrNull(readLevel(v))]
               /\ dom' = updateDestinationInfo(dom,
                           [destinationCoords EXCEPT !.level = levelOrNull(readLevel(v))])
               /\ ObserveValue("updateLevel", v)
  /\ UNCHANGED <<isStarted, gnssPose, gnssRunning, gnssError, currentItinerary, mmItinerary>>
  /\ UNCHANGED <<mapVars, routeVars, userVars, startPending>>
  /\ UNCHANGED <<destinationMarker, destinationMarkerNew, calcVars, idleCB>>

\* Bootstrap reaches initializeMap() with the map library present.
CB_InitializeMap ==
  /\ map = Null
  /\ map' = "map"
  /\ Observe("env", FALSE, FALSE)
  /\ UNCHANGED <<isStarted, gnssPose, gnssRunning, gnssError, currentItinerary, mmItinerary>>
  /\ UNCHANGED <<loadFired, mapLoaded, routeVars, userVars, startPending, dom>>
  /\ UNCHANGED <<destVars, calcVars, idleCB>>

\* The map's 'load' event: updateMapUserPosition(); updateMapRoute().
CB_MapLoad ==
  /\ map # Null
  /\ ~loadFired
  /\ loadFired' = TRUE
  /\ mapLoaded' = TRUE
  /\ updateMapUserPosition(gnssPose, TRUE)
  /\ updateMapRoute(currentItinerary, TRUE)
  /\ Observe("mapLoad", FALSE, FALSE)
  /\ UNCHANGED <<isStarted, gnssPose, gnssRunning, gnssError, currentItinerary, mmItinerary>>
  /\ UNCHANGED <<map, startPending, dom, destVars, calcVars, idleCB>>

\* ------------------------------------------- vps-location-source.ts page
\* Error thrown by handleStartVPSScan itself when startScan resolves false.
ScanFailed == "Failed to start VPSLocationSource scan"

\* updateUI(): what it writes from the state at the call.  started is
\* vpsLocationSource.isStarted, cam and camState the camera and camera.state.
\* The page's buttons carry no disabled attribute.
RenderVps(started, scanning, cnt, err, p, cam, camState) ==
  [ coreStatus   |-> IF coreInitialized THEN "Yes" ELSE "No",
    vpsStatus    |-> IF started THEN "Running" ELSE "Stopped",
    scanStatus   |-> IF scanning THEN "Running" ELSE "Stopped",
    updates      |-> cnt,
    error        |-> err,
    pose         |-> p,
    cameraShown  |-> (cam # 0),
    cameraStatus |-> IF cam # 0 THEN camState ELSE Null ]

\* Click on Start VPS Source: handleStartVPS runs to await start().
VPS_ClickStart ==
  /\ startPending < MaxPending
  /\ startPending' = startPending + 1
  /\ Observe("click", FALSE, FALSE)
  /\ UNCHANGED <<isStarted, stopPending, vpsVars, dom, idleVPS>>

\* vpsLocationSource.start() resolved.
VPS_StartResolved ==
  /\ startPending > 0
  /\ startPending' = startPending - 1
  /\ isStarted' = TRUE
  /\ vpsError' = Null
  /\ dom' = RenderVps(TRUE, isScanning, vpsUpdateCount, Null, vpsPose, camera, cameraState)
  /\ Observe("startOk", FALSE, FALSE)
  /\ UNCHANGED <<stopPending, vpsPose, vpsUpdateCount, isScanning, camera, liveCameras, cameraState>>
  /\ UNCHANGED <<scanPc, stopScanPc, idleVPS>>

\* vpsLocationSource.start() rejected with e.
VPS_StartRejected(e) ==
  /\ startPending > 0
  /\ startPending' = startPending - 1
  /\ vpsError' = e
  /\ dom' = RenderVps(isStarted, isScanning, vpsUpdateCount, e, vpsPose, camera, cameraState)
  /\ Observe("startFailed", TRUE, FALSE)
  /\ UNCHANGED <<isStarted, stopPending, vpsPose, vpsUpdateCount, isScanning, camera, liveCameras, cameraState>>
  /\ UNCHANGED <<scanPc, stopScanPc, idleVPS>>

\* Click on Stop VPS Source: handleStopVPS runs to await stop().
VPS_ClickStop ==
  /\ stopPending < MaxPending
  /\ stopPending' = stopPending + 1
  /\ Observe("click", FALSE, FALSE)
  /\ UNCHANGED <<isStarted, startPending, vpsVars, dom, idleVPS>>

\* vpsLocationSource.stop() resolved.
VPS_StopResolved ==
  /\ stopPending > 0
  /\ stopPending' = stopPending - 1
  /\ isStarted' = FALSE
  /\ vpsError' = Null
  /\ dom' = RenderVps(FALSE, isScanning, vpsUpdateCount, Null, vpsPose, camera, cameraState)
  /\ Observe("stopOk", FALSE, FALSE)
  /\ UNCHANGED <<startPending, vpsPose, vpsUpdateCount, isScanning, camera, liveCameras, cameraState>>
  /\ UNCHANGED <<scanPc, stopScanPc, idleVPS>>

\* vpsLocationSource.stop() rejected with e: stored and rendered, no alert.
VPS_StopRejected(e) ==
  /\ stopPending > 0
  /\ stopPending' = stopPending - 1
  /\ vpsError' = e
  /\ dom' = RenderVps(isStarted, isScanning, vpsUpdateCount, e, vpsPose, camera, cameraState)
  /\ Observe("stopFailed", FALSE, FALSE)
  /\ UNCHANGED <<isStarted, startPending, vpsPose, vpsUpdateCount, isScanning, camera, liveCameras, cameraState>>
  /\ UNCHANGED <<scanPc, stopScanPc, idleVPS>>

\* vpsLocationSource.onUpdate callback.
VPS_OnUpdate(p) ==
  /\ isStarted
  /\ vpsUpdateCount < MaxUpdates
  /\ vpsPose' = p
  /\ vpsUpdateCount' = vpsUpdateCount + 1
  /\ dom' = RenderVps(isStarted, isScanning, vpsUpdateCount + 1, vpsError, p, camera, cameraState)
  /\ ObserveValue("onUpdate", p)
  /\ UNCHANGED <<isStarted, pendVars, vpsError, isScanning, camera, liveCameras, cameraState>>
  /\ UNCHANGED <<scanPc, stopScanPc, idleVPS>>

\* vpsLocationSource.onError callback.
VPS_OnError(e) ==
  /\ isStarted
  /\ vpsError' = e
  /\ dom' = RenderVps(isStarted, isScanning, vpsUpdateCount, e, vpsPose, camera, cameraState)
  /\ Observe("onError", FALSE, FALSE)
  /\ UNCHANGED <<isStarted, pendVars, vpsPose, vpsUpdateCount, isScanning, camera, liveCameras, cameraState>>
  /\ UNCHANGED <<scanPc, stopScanPc, idleVPS>>

\* camera.on('fov.changed'): the live camera reports a field of view; updateUI().
VPS_CameraFovChanged ==
  /\ camera # 0
  /\ cameraState = "started"
  /\ dom' = RenderVps(isStarted, isScanning, vpsUpdateCount, vpsError, vpsPose, camera, cameraState)
  /\ Observe("cameraEvent", FALSE, FALSE)
  /\ UNCHANGED <<isStarted, pendVars, vpsVars, idleVPS>>

\* new Camera(...): the instance constructed next.
NewCamera == CHOOSE k \in 1..MaxCameras : k \notin liveCameras /\ \A j \in 1..(k - 1) : j \in liveCameras

\* catch of handleStartVPSScan: vpsError = message; updateUI(); alert().
\* scanning and camState are isScanning and camera.state when the catch runs.
scanCatch(i, e, scanning, camState) ==
  /\ vpsError' = e
  /\ dom' = RenderVps(isStarted, scanning, vpsUpdateCount, e, vpsPose, camera, camState)
  /\ scanPc' = [scanPc EXCEPT ![i] = "idle"]

\* const scanPromise = startScan(); isScanning = true; vpsError = null; updateUI();
\* then the handler waits for scanPromise.
scanBegin(i, camState) ==
  /\ isScanning' = TRUE
  /\ vpsError' = Null
  /\ dom' = RenderVps(isStarted, TRUE, vpsUpdateCount, Null, vpsPose, camera, camState)
  /\ scanPc' = [scanPc EXCEPT ![i] = "scan"]

\* Click on Start VPS Scan: handleStartVPSScan runs to await
\* requestSensorPermissions().  The button is never disabled, so a click can
\* come while an earlier invocation is suspended; i is the first free slot.
VPS_ClickStartScan(i) ==
  /\ scanPc[i] = "idle"
  /\ \A j \in Scans : j < i => scanPc[j] # "idle"
  /\ scanPc' = [scanPc EXCEPT ![i] = "permissions"]
  /\ Observe("click", FALSE, FALSE)
  /\ UNCHANGED <<isStarted, pendVars, vpsPose, vpsUpdateCount, vpsError, isScanning>>
  /\ UNCHANGED <<camera, liveCameras, cameraState, stopScanPc, dom, idleVPS>>

\* requestSensorPermissions() resolved (its value is not looked at): without a
\* camera setupCamera() runs to await Camera.checkAvailability(), with one the
\* scan is started.
VPS_PermissionsResolved(i) ==
  /\ scanPc[i] = "permissions"
  /\ IF camera = 0
     THEN /\ scanPc' = [scanPc EXCEPT ![i] = "checkAvailability"]
          /\ UNCHANGED <<vpsError, isScanning, dom>>
     ELSE scanBegin(i, cameraState)
  /\ Observe("permissionsOk", FALSE, FALSE)
  /\ UNCHANGED <<isStarted, pendVars, vpsPose, vpsUpdateCount, camera, liveCameras, cameraState>>
  /\ UNCHANGED <<stopScanPc, idleVPS>>

\* requestSensorPermissions() rejected with e.
VPS_PermissionsRejected(i, e) ==
  /\ scanPc[i] = "permissions"
  /\ scanCatch(i, e, isScanning, cameraState)
  /\ Observe("scanFailed", TRUE, FALSE)
  /\ UNCHANGED <<isStarted, pendVars, vpsPose, vpsUpdateCount, isScanning, camera, liveCameras, cameraState>>
  /\ UNCHANGED <<stopScanPc, idleVPS>>

\* Camera.checkAvailability() resolved: camera = new Camera(...); the handler
\* waits for camera.start() without a render in between.
VPS_AvailabilityResolved(i) ==
  /\ scanPc[i] = "checkAvailability"
  /\ Cardinality(liveCameras) < MaxCameras
  /\ camera' = NewCamera
  /\ liveCameras' = liveCameras \cup {NewCamera}
  /\ cameraState' = "starting"
  /\ scanPc' = [scanPc EXCEPT ![i] = "cameraStart"]
  /\ Observe("cameraCreated", FALSE, FALSE)
  /\ UNCHANGED <<isStarted, pendVars, vpsPose, vpsUpdateCount, vpsError, isScanning>>
  /\ UNCHANGED <<stopScanPc, dom, idleVPS>>

\* Camera.checkAvailability() rejected with e: setupCamera rethrows.
VPS_AvailabilityRejected(i, e) ==
  /\ scanPc[i] = "checkAvailability"
  /\ scanCatch(i, e, isScanning, cameraState)
  /\ Observe("scanFailed", TRUE, FALSE)
  /\ UNCHANGED <<isStarted, pendVars, vpsPose, vpsUpdateCount, isScanning, camera, liveCameras, cameraState>>
  /\ UNCHANGED <<stopScanPc, idleVPS>>

\* camera.start() resolved: the 'started' listener renders, then the scan is started.
VPS_CameraStartResolved(i) ==
  /\ scanPc[i] = "cameraStart"
  /\ cameraState' = IF camera # 0 THEN "started" ELSE cameraState
  /\ scanBegin(i, IF camera # 0 THEN "started" ELSE cameraState)
  /\ Observe("cameraStarted", FALSE, FALSE)
  /\ UNCHANGED <<isStarted, pendVars, vpsPose, vpsUpdateCount, camera, liveCameras, stopScanPc, idleVPS>>

\* camera.start() rejected with e: setupCamera rethrows, the camera stays referenced.
VPS_CameraStartRejected(i, e) ==
  /\ scanPc[i] = "cameraStart"
  /\ cameraState' = IF camera # 0 THEN "stopped" ELSE cameraState
  /\ scanCatch(i, e, isScanning, IF camera # 0 THEN "stopped" ELSE cameraState)
  /\ Observe("scanFailed", TRUE, FALSE)
  /\ UNCHANGED <<isStarted, pendVars, vpsPose, vpsUpdateCount, isScanning, camera, liveCameras>>
  /\ UNCHANGED <<stopScanPc, idleVPS>>

\* scanPromise resolved with success: isScanning = false; on failure the
\* handler throws into its catch, on success it waits for stopCamera() when a
\* camera exists and renders only after that.
VPS_ScanResolved(i, success) ==
  /\ scanPc[i] = "scan"
  /\ isScanning' = FALSE
  /\ IF ~success
     THEN /\ scanCatch(i, ScanFailed, FALSE, cameraState)
          /\ Observe("scanFalse", TRUE, FALSE)
     ELSE /\ IF camera # 0
             THEN /\ scanPc' = [scanPc EXCEPT ![i] = "stopCamera"]
                  /\ UNCHANGED dom
                  /\ Observe("scanOk", FALSE, FALSE)
             ELSE /\ scanPc' = [scanPc EXCEPT ![i] = "idle"]
                  /\ dom' = RenderVps(isStarted, FALSE, vpsUpdateCount, vpsError, vpsPose,
                                      camera, cameraState)
                  /\ Observe("scanDone", FALSE, FALSE)
          /\ UNCHANGED vpsError
  /\ UNCHANGED <<isStarted, pendVars, vpsPose, vpsUpdateCount, camera, liveCameras, cameraState>>
  /\ UNCHANGED <<stopScanPc, idleVPS>>

\* scanPromise rejected with e: isScanning keeps its value.
VPS_ScanRejected(i, e) ==
  /\ scanPc[i] = "scan"
  /\ scanCatch(i, e, isScanning, cameraState)
  /\ Observe("scanRejected", TRUE, FALSE)
  /\ UNCHANGED <<isStarted, pendVars, vpsPose, vpsUpdateCount, isScanning, camera, liveCameras, cameraState>>
  /\ UNCHANGED <<stopScanPc, idleVPS>>

\* stopCamera() of handleStartVPSScan: camera.stop() resolved (ok) or rejected
\* (the error is swallowed); then the handler's last updateUI().
VPS_ScanCameraStopped(i, ok) ==
  /\ scanPc[i] = "stopCamera"
  /\ scanPc' = [scanPc EXCEPT ![i] = "idle"]
  /\ camera' = IF ok THEN 0 ELSE camera
  /\ liveCameras' = IF ok THEN liveCameras \ {camera} ELSE liveCameras
  /\ cameraState' = IF ok THEN "stopped" ELSE cameraState
  /\ dom' = RenderVps(isStarted, isScanning, vpsUpdateCount, vpsError, vpsPose,
                      IF ok THEN 0 ELSE camera, IF ok THEN "stopped" ELSE cameraState)
  /\ Observe("scanDone", FALSE, FALSE)
  /\ UNCHANGED <<isStarted, pendVars, vpsPose, vpsUpdateCount, vpsError, isScanning>>
  /\ UNCHANGED <<stopScanPc, idleVPS>>

\* Click on Stop VPS Scan: handleStopVPSScan runs to await camera.stop() when a
\* camera exists, else to await stopScan().
VPS_ClickStopScan ==
  /\ stopScanPc = "idle"
  /\ stopScanPc' = IF camera # 0 THEN "stopCamera" ELSE "stopScan"
  /\ Observe("click", FALSE, FALSE)
  /\ UNCHANGED <<isStarted, pendVars, vpsPose, vpsUpdateCount, vpsError, isScanning>>
  /\ UNCHANGED <<camera, liveCameras, cameraState, scanPc, dom, idleVPS>>

\* stopCamera() of handleStopVPSScan: camera.stop() resolved (ok: the 'stopped'
\* listener renders, then camera = null) or rejected; the handler goes on to
\* await stopScan().
VPS_StopScanCameraStopped(ok) ==
  /\ stopScanPc = "stopCamera"
  /\ stopScanPc' = "stopScan"
  /\ camera' = IF ok THEN 0 ELSE camera
  /\ liveCameras' = IF ok THEN liveCameras \ {camera} ELSE liveCameras
  /\ cameraState' = IF ok THEN "stopped" ELSE cameraState
  /\ dom' = IF ok
            THEN RenderVps(isStarted, isScanning, vpsUpdateCount, vpsError, vpsPose,
                           camera, "stopped")
            ELSE dom
  /\ Observe("cameraStopped", FALSE, FALSE)
  /\ UNCHANGED <<isStarted, pendVars, vpsPose, vpsUpdateCount, vpsError, isScanning>>
  /\ UNCHANGED <<scanPc, idleVPS>>

\* vpsLocationSource.stopScan() resolved.
VPS_StopScanResolved ==
  /\ stopScanPc = "stopScan"
  /\ stopScanPc' = "idle"
  /\ isScanning' = FALSE
  /\ vpsError' = Null
  /\ dom' = RenderVps(isStarted, FALSE, vpsUpdateCount, Null, vpsPose, camera, cameraState)
  /\ Observe("stopScanOk", FALSE, FALSE)
  /\ UNCHANGED <<isStarted, pendVars, vpsPose, vpsUpdateCount, camera, liveCameras, cameraState>>
  /\ UNCHANGED <<scanPc, idleVPS>>

\* vpsLocationSource.stopScan() rejected with e.
VPS_StopScanRejected(e) ==
  /\ stopScanPc = "stopScan"
  /\ stopScanPc' = "idle"
  /\ vpsError' = e
  /\ dom' = RenderVps(isStarted, isScanning, vpsUpdateCount, e, vpsPose, camera, cameraState)
  /\ Observe("stopScanFailed", TRUE, FALSE)
  /\ UNCHANGED <<isStarted, pendVars, vpsPose, vpsUpdateCount, isScanning, camera, liveCameras, cameraState>>
  /\ UNCHANGED <<scanPc, idleVPS>>

NewItineraries == {it \in Itineraries : it.ncoords > 0}

\* Top of each script: coreInitialized = true after await core.init() resolved,
\* the catch only logs a warning when it rejected.
CoreSettled ==
  /\ coreInit \in {"resolved", "rejected"}
  /\ coreInitialized = (coreInit = "resolved")

InitCommon ==
  /\ isStarted = FALSE
  /\ gnssPose = NoPose
  /\ gnssUpdateCount = 0
  /\ gnssRunning = FALSE
  /\ gnssError = Null
  /\ currentItinerary = NoItinerary
  /\ itineraryInfo = 0
  /\ mmItinerary = NoItinerary
  /\ map = Null
  /\ loadFired = FALSE
  /\ mapLoaded = FALSE
  /\ routeSourceId = Null
  /\ srcData = NoItinerary
  /\ hasLayer = FALSE
  /\ userMarker = 0
  /\ userMarkerPos = 0
  /\ userMarkerNew = 0
  /\ startPending = 0
  /\ stopPending = 0
  /\ destinationCoords = NoDestination
  /\ destinationMarker = 0
  /\ destinationMarkerNew = 0
  /\ isCalculatingRoute = FALSE
  /\ routeError = Null
  /\ imItinerary = NoItinerary
  /\ calcPending = 0
  /\ vpsPose = NoPose
  /\ vpsUpdateCount = 0
  /\ vpsError = Null
  /\ isScanning = FALSE
  /\ camera = 0
  /\ liveCameras = {}
  /\ cameraState = "stopped"
  /\ scanPc = [i \in Scans |-> "idle"]
  /\ stopScanPc = "idle"
  /\ vpsRunning = FALSE
  /\ stopVpsPc = "idle"
  /\ ev = "init"
  /\ alerted = FALSE
  /\ thrown = FALSE
  /\ delivered = NoPose
  /\ router = FALSE
  /\ testPosition = 0
  /\ navigationInfo = NoNav
  /\ originPosition = 0
  /\ destinationPosition = 0
  /\ originMarker = 0
  /\ testPositionMarker = 0
  /\ popup = NoPopup
  /\ calls = <<>>
  /\ latest = NoCall

\* The page models start with the dev server serving them.
ServerUp ==
  /\ certExists = TRUE
  /\ keyExists = TRUE
  /\ httpsConfig = TRUE
  /\ serverPc = "listening"
  /\ serverPort = DevPort
  /\ serverHttps = TRUE
  /\ portsTaken = {}

\* The page models start where the bootstrap has found the library.
BootDone ==
  /\ maplibregl = TRUE
  /\ mapContainer = TRUE
  /\ bootPc = "done"
  /\ checkMapLibre = FALSE
  /\ stopTimer = FALSE
  /\ ticks = 0
  /\ mapNew = 0
  /\ libLoadedAt = "initial"
  /\ libLoadedTick = 0

InitMM ==
  /\ InitCommon
  /\ ServerUp
  /\ CoreSettled
  /\ BootDone
  /\ dom = RenderMM(coreInitialized, FALSE, Null, NoPose, 0, NoItinerary, 0)

NextMM ==
  \/ MM_ClickStart
  \/ MM_StartResolved
  \/ \E e \in Errors : MM_StartRejected(e)
  \/ MM_ClickStop
  \/ MM_StopResolved
  \/ \E e \in Errors : MM_StopRejected(e)
  \/ \E p \in Poses : MM_OnUpdate(p)
  \/ \E e \in Errors : MM_OnError(e)
  \/ \E it \in NewItineraries, o \in {"ok", "throwCreate", "throwSet"} : MM_SetRouteFromPosition(it, o)
  \/ MM_ClearItinerary
  \/ MM_InitializeMap
  \/ MM_MapLoad
  \/ MapBusy
  \/ MapIdle

SpecMapMatching == InitMM /\ [][NextMM]_vars

\* What router.directions() can resolve with: no itinerary, or a list whose
\* first itinerary (a route with coordinates) is the one the page takes.
DirectionsResults == {<<>>} \cup {<<it>> : it \in NewItineraries}

InitCB ==
  /\ InitCommon
  /\ ServerUp
  /\ CoreSettled
  /\ BootDone
  /\ dom = RenderCB

NextCB ==
  \/ CB_ClickStartGNSS
  \/ CB_StartResolved
  \/ \E e \in Errors : CB_StartRejected(e)
  \/ \E p \in Poses : CB_OnUpdate(p)
  \/ \E e \in Errors : CB_OnError(e)
  \/ \E c \in 1..MaxCoord, v \in LevelInputs : CB_MapClick(c, v)
  \/ CB_ClickStartItinerary
  \/ \E e \in Errors : CB_RouteRejected(e)
  \/ \E its \in DirectionsResults, o \in {"ok"} \cup Errors : CB_RouteResolved(its, o)
  \/ \E v \in LevelInputs : CB_ClickUpdateLevel(v)
  \/ CB_InitializeMap
  \/ CB_MapLoad
  \/ MapBusy
  \/ MapIdle

SpecCombined == InitCB /\ [][NextCB]_vars

InitVPS ==
  /\ InitCommon
  /\ ServerUp
  /\ CoreSettled
  /\ BootDone
  /\ dom = RenderVps(FALSE, FALSE, 0, Null, NoPose, 0, "stopped")

\* The page with one handleStartVPSScan invocation at a time.
NextVPS ==
  \/ VPS_ClickStart
  \/ VPS_StartResolved
  \/ \E e \in Errors : VPS_StartRejected(e)
  \/ VPS_ClickStop
  \/ VPS_StopResolved
  \/ \E e \in Errors : VPS_StopRejected(e)
  \/ \E p \in Poses : VPS_OnUpdate(p)
  \/ \E e \in Errors : VPS_OnError(e)
  \/ VPS_CameraFovChanged
  \/ VPS_ClickStartScan(1)
  \/ VPS_PermissionsResolved(1)
  \/ \E e \in Errors : VPS_PermissionsRejected(1, e)
  \/ VPS_AvailabilityResolved(1)
  \/ \E e \in Errors : VPS_AvailabilityRejected(1, e)
  \/ VPS_CameraStartResolved(1)
  \/ \E e \in Errors : VPS_CameraStartRejected(1, e)
  \/ \E ok \in BOOLEAN : VPS_ScanResolved(1, ok)
  \/ \E e \in Errors : VPS_ScanRejected(1, e)
  \/ \E ok \in BOOLEAN : VPS_ScanCameraStopped(1, ok)
  \/ VPS_ClickStopScan
  \/ \E ok \in BOOLEAN : VPS_StopScanCameraStopped(ok)
  \/ VPS_StopScanResolved
  \/ \E e \in Errors : VPS_StopScanRejected(e)

SpecVps == InitVPS /\ [][NextVPS]_vars

\* The scan buttons alone, with up to MaxScans invocations of
\* handleStartVPSScan suspended at the same time.
NextVPSScan ==
  \/ \E i \in Scans : VPS_ClickStartScan(i)
  \/ \E i \in Scans : VPS_PermissionsResolved(i)
  \/ \E i \in Scans, e \in Errors : VPS_PermissionsRejected(i, e)
  \/ \E i \in Scans : VPS_AvailabilityResolved(i)
  \/ \E i \in Scans, e \in Errors : VPS_AvailabilityRejected(i, e)
  \/ \E i \in Scans : VPS_CameraStartResolved(i)
  \/ \E i \in Scans, e \in Errors : VPS_CameraStartRejected(i, e)
  \/ \E i \in Scans, ok \in BOOLEAN : VPS_ScanResolved(i, ok)
  \/ \E i \in Scans, e \in Errors : VPS_ScanRejected(i, e)
  \/ \E i \in Scans, ok \in BOOLEAN : VPS_ScanCameraStopped(i, ok)
  \/ VPS_ClickStopScan
  \/ \E ok \in BOOLEAN : VPS_StopScanCameraStopped(ok)
  \/ VPS_StopScanResolved
  \/ \E e \in Errors : VPS_StopScanRejected(e)

SpecVpsScan == InitVPS /\ [][NextVPSScan]_vars

\* ------------------------------- map-matching page fed by VPSLocationSource
\* Error thrown by handleStartVPSScan itself when startScan resolves false.
VpsScanFailed == "VPS scan failed"

mvMap == <<mapVars, routeVars, userVars>>
mvPose == <<vpsPose, vpsUpdateCount>>
mvCam == <<camera, liveCameras, cameraState>>

\* updateUI(), VPSLocationSource section: Start VPS Scan is disabled while
\* !vpsRunning, Stop VPS Scan while !isScanning; the two source buttons carry no
\* disabled attribute.
RenderMV(running, scanning, cnt, err, p, cam, camState) ==
  [ vpsStatus        |-> IF running THEN "Running" ELSE "Stopped",
    scanStatus       |-> IF scanning THEN "Scanning" ELSE "Stopped",
    updates          |-> cnt,
    error            |-> err,
    startScanDisabled |-> ~running,
    stopScanDisabled |-> ~scanning,
    pose             |-> p,
    cameraShown      |-> (cam # 0),
    cameraStatus     |-> IF cam # 0 THEN camState ELSE Null ]

\* Click on Start VPS Source: handleStartVPS runs to await start().
MV_ClickStart ==
  /\ startPending < MaxPending
  /\ startPending' = startPending + 1
  /\ Observe("click", FALSE, FALSE)
  /\ UNCHANGED <<mvVars, vpsVars, mvMap, dom, idleMV>>

\* vpsLocationSource.start() settled.  Resolved (ok): vpsRunning = true;
\* vpsError = null; updateUI().  Rejected with e: vpsError = message;
\* updateUI(); alert().
MV_StartSettled(ok, e) ==
  /\ startPending > 0
  /\ startPending' = startPending - 1
  /\ vpsRunning' = (ok \/ vpsRunning)
  /\ vpsError' = IF ok THEN Null ELSE e
  /\ dom' = RenderMV(ok \/ vpsRunning, isScanning, vpsUpdateCount, IF ok THEN Null ELSE e,
                     vpsPose, camera, cameraState)
  /\ Observe(IF ok THEN "startOk" ELSE "startFailed", ~ok, FALSE)
  /\ UNCHANGED <<stopVpsPc, mvPose, isScanning, mvCam, scanPc, stopScanPc, mvMap, idleMV>>

\* Click on Stop VPS Source: handleStopVPS calls handleStopVPSScan() when
\* isScanning, which runs to await camera.stop() or to await stopScan(); else
\* it runs to await stop().
MV_ClickStop ==
  /\ stopVpsPc = "idle"
  /\ stopVpsPc' = IF isScanning
                  THEN IF camera # 0 THEN "stopCamera" ELSE "stopScan"
                  ELSE "stop"
  /\ Observe("click", FALSE, FALSE)
  /\ UNCHANGED <<startPending, vpsRunning, vpsVars, mvMap, dom, idleMV>>

\* Click on Stop VPS Scan (enabled as last rendered): handleStopVPSScan runs to
\* await camera.stop() when a camera exists, else to await stopScan().
MV_ClickStopScan ==
  /\ ~dom.stopScanDisabled
  /\ stopScanPc = "idle"
  /\ stopScanPc' = IF camera # 0 THEN "stopCamera" ELSE "stopScan"
  /\ Observe("click", FALSE, FALSE)
  /\ UNCHANGED <<startPending, mvVars, mvPose, vpsError, isScanning, mvCam, scanPc, dom>>
  /\ UNCHANGED <<mvMap, idleMV>>

\* handleStopVPSScan, called by handleStopVPS (inner) or from its button:
\* stopCamera() settled.  camera.stop() resolved (ok): the 'stopped' listener
\* renders, then camera.release(); camera = null.  Rejected: the error is
\* swallowed.  The handler goes on to await stopScan().
MV_StopScanCameraStopped(inner, ok) ==
  /\ IF inner
     THEN stopVpsPc = "stopCamera" /\ stopVpsPc' = "stopScan" /\ UNCHANGED stopScanPc
     ELSE stopScanPc = "stopCamera" /\ stopScanPc' = "stopScan" /\ UNCHANGED stopVpsPc
  /\ camera' = IF ok THEN 0 ELSE camera
  /\ liveCameras' = IF ok THEN liveCameras \ {camera} ELSE liveCameras
  /\ cameraState' = IF ok /\ camera # 0 THEN "stopped" ELSE cameraState
  /\ dom' = IF ok /\ camera # 0
            THEN RenderMV(vpsRunning, isScanning, vpsUpdateCount, vpsError, vpsPose,
                          camera, "stopped")
            ELSE dom
  /\ Observe("cameraStopped", FALSE, FALSE)
  /\ UNCHANGED <<startPending, vpsRunning, mvPose, vpsError, isScanning, scanPc>>
  /\ UNCHANGED <<mvMap, idleMV>>

\* handleStopVPSScan, called by handleStopVPS (inner) or from its button:
\* stopScan() settled.  Resolved (ok): isScanning = false; vpsError = null;
\* updateUI().  Rejected with e: the catch stores the message and renders,
\* isScanning keeps its value and nothing is rethrown.  An inner call returns
\* to handleStopVPS either way, which goes on to await stop().
MV_StopScanSettled(inner, ok, e) ==
  /\ IF inner
     THEN stopVpsPc = "stopScan" /\ stopVpsPc' = "stop" /\ UNCHANGED stopScanPc
     ELSE stopScanPc = "stopScan" /\ stopScanPc' = "idle" /\ UNCHANGED stopVpsPc
  /\ isScanning' = (~ok /\ isScanning)
  /\ vpsError' = IF ok THEN Null ELSE e
  /\ dom' = RenderMV(vpsRunning, ~ok /\ isScanning, vpsUpdateCount, IF ok THEN Null ELSE e,
                     vpsPose, camera, cameraState)
  /\ Observe(IF ok THEN "stopScanOk" ELSE "stopScanFailed", FALSE, FALSE)
  /\ UNCHANGED <<startPending, vpsRunning, mvPose, mvCam, scanPc, mvMap, idleMV>>

\* vpsLocationSource.stop() settled.  Resolved (ok): vpsRunning = false;
\* vpsError = null; updateUI().  Rejected with e: stored and rendered, no alert.
MV_StopSettled(ok, e) ==
  /\ stopVpsPc = "stop"
  /\ stopVpsPc' = "idle"
  /\ vpsRunning' = (~ok /\ vpsRunning)
  /\ vpsError' = IF ok THEN Null ELSE e
  /\ dom' = RenderMV(~ok /\ vpsRunning, isScanning, vpsUpdateCount, IF ok THEN Null ELSE e,
                     vpsPose, camera, cameraState)
  /\ Observe(IF ok THEN "stopOk" ELSE "stopFailed", FALSE, FALSE)
  /\ UNCHANGED <<startPending, mvPose, isScanning, mvCam, scanPc, stopScanPc, mvMap, idleMV>>

\* vpsLocationSource.onUpdate callback: updateUI(); updateMapUserPosition().
MV_OnUpdate(p) ==
  /\ vpsRunning
  /\ vpsUpdateCount < MaxUpdates
  /\ vpsPose' = p
  /\ vpsUpdateCount' = vpsUpdateCount + 1
  /\ dom' = RenderMV(vpsRunning, isScanning, vpsUpdateCount + 1, vpsError, p, camera, cameraState)
  /\ updateMapUserPosition(p, mapLoaded)
  /\ ObserveValue("onUpdate", p)
  /\ UNCHANGED <<startPending, mvVars, vpsError, isScanning, mvCam, scanPc, stopScanPc>>
  /\ UNCHANGED <<mapVars, routeVars, idleMV>>

\* vpsLocationSource.onError callback.
MV_OnError(e) ==
  /\ vpsRunning
  /\ vpsError' = e
  /\ dom' = RenderMV(vpsRunning, isScanning, vpsUpdateCount, e, vpsPose, camera, cameraState)
  /\ Observe("onError", FALSE, FALSE)
  /\ UNCHANGED <<startPending, mvVars, mvPose, isScanning, mvCam, scanPc, stopScanPc>>
  /\ UNCHANGED <<mvMap, idleMV>>

\* catch of handleStartVPSScan: isScanning = false; vpsError = message;
\* updateUI(); alert().  step names the step that failed.
MV_scanCatch(e, camState, step) ==
  /\ isScanning' = FALSE
  /\ vpsError' = e
  /\ dom' = RenderMV(vpsRunning, FALSE, vpsUpdateCount, e, vpsPose, camera, camState)
  /\ scanPc' = [scanPc EXCEPT ![1] = "idle"]
  /\ Observe(step, TRUE, FALSE)

\* const scanPromise = startScan(); isScanning = true; vpsError = null;
\* updateUI(); then the handler waits for scanPromise.
MV_scanBegin(camState) ==
  /\ isScanning' = TRUE
  /\ vpsError' = Null
  /\ dom' = RenderMV(vpsRunning, TRUE, vpsUpdateCount, Null, vpsPose, camera, camState)
  /\ scanPc' = [scanPc EXCEPT ![1] = "scan"]

\* After the permission step: without a camera setupCamera() runs to await
\* Camera.checkAvailability(), with one the scan is started.
MV_afterPermission ==
  IF camera = 0
  THEN /\ scanPc' = [scanPc EXCEPT ![1] = "checkAvailability"]
       /\ UNCHANGED <<vpsError, isScanning, dom>>
  ELSE MV_scanBegin(cameraState)

\* Click on Start VPS Scan (enabled as last rendered): where
\* DeviceOrientationEvent.requestPermission exists (ios) handleStartVPSScan runs
\* to await it, elsewhere it goes straight on.  One invocation at a time.
MV_ClickStartScan(ios) ==
  /\ ~dom.startScanDisabled
  /\ scanPc[1] = "idle"
  /\ IF ios
     THEN /\ scanPc' = [scanPc EXCEPT ![1] = "permissions"]
          /\ UNCHANGED <<vpsError, isScanning, dom>>
     ELSE MV_afterPermission
  /\ Observe("click", FALSE, FALSE)
  /\ UNCHANGED <<startPending, mvVars, mvPose, mvCam, stopScanPc, mvMap, idleMV>>

\* requestPermission() settled: resolved (ok, its value is not looked at) or
\* rejected with e.
MV_PermissionsSettled(ok, e) ==
  /\ scanPc[1] = "permissions"
  /\ IF ok
     THEN MV_afterPermission /\ Observe("permissionsOk", FALSE, FALSE)
     ELSE MV_scanCatch(e, cameraState, "scanFailed")
  /\ UNCHANGED <<startPending, mvVars, mvPose, mvCam, stopScanPc, mvMap, idleMV>>

\* Camera.checkAvailability() settled.  Resolved (ok): camera = new Camera(...);
\* the handler waits for camera.start() without a render in between.  Rejected
\* with e: setupCamera rethrows.
MV_AvailabilitySettled(ok, e) ==
  /\ scanPc[1] = "checkAvailability"
  /\ IF ok
     THEN /\ Cardinality(liveCameras) < MaxCameras
          /\ camera' = NewCamera
          /\ liveCameras' = liveCameras \cup {NewCamera}
          /\ cameraState' = "starting"
          /\ scanPc' = [scanPc EXCEPT ![1] = "cameraStart"]
          /\ Observe("cameraCreated", FALSE, FALSE)
          /\ UNCHANGED <<vpsError, isScanning, dom>>
     ELSE /\ MV_scanCatch(e, cameraState, "scanFailed")
          /\ UNCHANGED mvCam
  /\ UNCHANGED <<startPending, mvVars, mvPose, stopScanPc, mvMap, idleMV>>

\* camera.start() settled.  Resolved (ok): the 'started' listener renders, then
\* the scan is started.  Rejected with e: setupCamera rethrows, the camera
\* stays referenced.
MV_CameraStartSettled(ok, e) ==
  /\ scanPc[1] = "cameraStart"
  /\ cameraState' = IF camera # 0 THEN (IF ok THEN "started" ELSE "stopped") ELSE cameraState
  /\ IF ok
     THEN /\ MV_scanBegin(IF camera # 0 THEN "started" ELSE cameraState)
          /\ Observe("cameraStarted", FALSE, FALSE)
     ELSE MV_scanCatch(e, IF camera # 0 THEN "stopped" ELSE cameraState, "scanFailed")
  /\ UNCHANGED <<startPending, mvVars, mvPose, camera, liveCameras, stopScanPc, mvMap, idleMV>>

\* scanPromise settled.  Resolved true: isScanning = false; the handler waits
\* for stopCamera() when a camera exists and renders only after that.
\* Resolved false: the handler throws 'VPS scan failed' into its catch.
\* Rejected with e: the catch.
MV_ScanSettled(outcome, e) ==
  /\ scanPc[1] = "scan"
  /\ CASE outcome = "false" -> MV_scanCatch(VpsScanFailed, cameraState, "scanFalse")
       [] outcome = "rejected" -> MV_scanCatch(e, cameraState, "scanRejected")
       [] outcome = "true" ->
            /\ isScanning' = FALSE
            /\ UNCHANGED vpsError
            /\ IF camera # 0
               THEN /\ scanPc' = [scanPc EXCEPT ![1] = "stopCamera"]
                    /\ UNCHANGED dom
                    /\ Observe("scanOk", FALSE, FALSE)
               ELSE /\ scanPc' = [scanPc EXCEPT ![1] = "idle"]
                    /\ dom' = RenderMV(vpsRunning, FALSE, vpsUpdateCount, vpsError, vpsPose,
                                       camera, cameraState)
                    /\ Observe("scanDone", FALSE, FALSE)
  /\ UNCHANGED <<startPending, mvVars, mvPose, mvCam, stopScanPc, mvMap, idleMV>>

\* stopCamera() of handleStartVPSScan settled; then the handler's last updateUI().
MV_ScanCameraStopped(ok) ==
  /\ scanPc[1] = "stopCamera"
  /\ scanPc' = [scanPc EXCEPT ![1] = "idle"]
  /\ camera' = IF ok THEN 0 ELSE camera
  /\ liveCameras' = IF ok THEN liveCameras \ {camera} ELSE liveCameras
  /\ cameraState' = IF ok /\ camera # 0 THEN "stopped" ELSE cameraState
  /\ dom' = RenderMV(vpsRunning, isScanning, vpsUpdateCount, vpsError, vpsPose,
                     IF ok THEN 0 ELSE camera,
                     IF ok /\ camera # 0 THEN "stopped" ELSE cameraState)
  /\ Observe("scanDone", FALSE, FALSE)
  /\ UNCHANGED <<startPending, mvVars, mvPose, vpsError, isScanning, stopScanPc, mvMap, idleMV>>

\* Bootstrap reaches initializeMap() with the map library present.
MV_InitializeMap ==
  /\ map = Null
  /\ map' = "map"
  /\ Observe("env", FALSE, FALSE)
  /\ UNCHANGED <<startPending, mvVars, vpsVars, loadFired, mapLoaded, routeVars, userVars, dom>>
  /\ UNCHANGED idleMV

\* The map's 'load' event: updateMapUserPosition(); updateMapItinerary().
MV_MapLoad ==
  /\ map # Null
  /\ ~loadFired
  /\ loadFired' = TRUE
  /\ mapLoaded' = TRUE
  /\ updateMapUserPosition(vpsPose, TRUE)
  /\ updateMapItinerary(currentItinerary, TRUE)
  /\ Observe("mapLoad", FALSE, FALSE)
  /\ UNCHANGED <<startPending, mvVars, vpsVars, map, dom, idleMV>>

InitMV ==
  /\ InitCommon
  /\ ServerUp
  /\ CoreSettled
  /\ BootDone
  /\ dom = RenderMV(FALSE, FALSE, 0, Null, NoPose, 0, "stopped")

\* The VPSLocationSource section of the page and its map, with one
\* handleStartVPSScan invocation at a time.
NextMV ==
  \/ MV_ClickStart
  \/ \E ok \in BOOLEAN, e \in Errors : MV_StartSettled(ok, e)
  \/ MV_ClickStop
  \/ MV_ClickStopScan
  \/ \E inner, ok \in BOOLEAN : MV_StopScanCameraStopped(inner, ok)
  \/ \E inner, ok \in BOOLEAN, e \in Errors : MV_StopScanSettled(inner, ok, e)
  \/ \E ok \in BOOLEAN, e \in Errors : MV_StopSettled(ok, e)
  \/ \E p \in Poses : MV_OnUpdate(p)
  \/ \E e \in Errors : MV_OnError(e)
  \/ \E ios \in BOOLEAN : MV_ClickStartScan(ios)
  \/ \E ok \in BOOLEAN, e \in Errors : MV_PermissionsSettled(ok, e)
  \/ \E ok \in BOOLEAN, e \in Errors : MV_AvailabilitySettled(ok, e)
  \/ \E ok \in BOOLEAN, e \in Errors : MV_CameraStartSettled(ok, e)
  \/ \E o \in {"true", "false", "rejected"}, e \in Errors : MV_ScanSettled(o, e)
  \/ \E ok \in BOOLEAN : MV_ScanCameraStopped(ok)
  \/ MV_InitializeMap
  \/ MV_MapLoad

SpecMapMatchingVps == InitMV /\ [][NextMV]_vars

\* ------------------------------------ combined page fed by VPSLocationSource
\* Error thrown by handleStartVPS itself when permission is refused.
PermissionDenied == "Permission denied"

\* What the Start VPS handler and the source's listeners leave alone.
idleCV == <<coreVars, isStarted, gnssPose, gnssUpdateCount, gnssRunning, gnssError, itinVars,
            mapVars, routeVars, pendVars, destVars, calcVars, vpsUpdateCount, isScanning,
            stopScanPc, stopVpsPc, bootVars, rtVars, devVars>>

\* catch of handleStartVPS: vpsError = message; updateErrorDisplay();
\* updateButtonStates(); alert().  step names the step that failed.
CV_catch(i, e, step) ==
  /\ vpsError' = e
  /\ dom' = updateButtonStates(updateErrorDisplay(dom, e, routeError),
                               vpsRunning, destinationCoords, isCalculatingRoute)
  /\ scanPc' = [scanPc EXCEPT ![i] = "idle"]
  /\ Observe(step, TRUE, FALSE)

\* Click on Start VPS (enabled as last rendered): handleStartVPS runs to await
\* requestSensorPermissions().  i is the first free slot.
CV_ClickStartVPS(i) ==
  /\ ~dom.startDisabled
  /\ scanPc[i] = "idle"
  /\ \A j \in Scans : j < i => scanPc[j] # "idle"
  /\ scanPc' = [scanPc EXCEPT ![i] = "permissions"]
  /\ Observe("click", FALSE, FALSE)
  /\ UNCHANGED <<vpsRunning, vpsPose, vpsError, mvCam, userVars, dom, idleCV>>

\* requestSensorPermissions() settled.  Resolved true: the handler runs to
\* await vpsLocationSource.start().  Resolved false: it throws 'Permission
\* denied' into its catch.  Rejected with e: the catch.
CV_PermissionsSettled(i, outcome, e) ==
  /\ scanPc[i] = "permissions"
  /\ CASE outcome = "true" ->
            /\ scanPc' = [scanPc EXCEPT ![i] = "start"]
            /\ Observe("permissionsOk", FALSE, FALSE)
            /\ UNCHANGED <<vpsError, dom>>
       [] outcome = "false" -> CV_catch(i, PermissionDenied, "permissionDenied")
       [] outcome = "rejected" -> CV_catch(i, e, "permissionFailed")
  /\ UNCHANGED <<vpsRunning, vpsPose, mvCam, userVars, idleCV>>

\* const scanPromise = startScan(); updateButtonStates(); then the handler
\* waits for scanPromise.  d is the display and running vpsRunning at the call.
CV_scanBegin(i, d, running) ==
  /\ dom' = updateButtonStates(d, running, destinationCoords, isCalculatingRoute)
  /\ scanPc' = [scanPc EXCEPT ![i] = "scan"]

\* vpsLocationSource.start() settled.  Resolved (ok): vpsRunning = true;
\* vpsError = null; updateButtonStates(); updateErrorDisplay(); without a
\* camera setupCamera() runs to await Camera.checkAvailability(), with one the
\* scan is started.  Rejected with e: the catch.
CV_StartSettled(i, ok, e) ==
  /\ scanPc[i] = "start"
  /\ IF ok
     THEN /\ vpsRunning' = TRUE
          /\ vpsError' = Null
          /\ IF camera = 0
             THEN /\ dom' = updateErrorDisplay(
                              updateButtonStates(dom, TRUE, destinationCoords,
                                                 isCalculatingRoute),
                              Null, routeError)
                  /\ scanPc' = [scanPc EXCEPT ![i] = "checkAvailability"]
             ELSE CV_scanBegin(i, updateErrorDisplay(dom, Null, routeError), TRUE)
          /\ Observe("startOk", FALSE, FALSE)
     ELSE /\ CV_catch(i, e, "startFailed")
          /\ UNCHANGED vpsRunning
  /\ UNCHANGED <<vpsPose, mvCam, userVars, idleCV>>

\* Camera.checkAvailability() settled.  Resolved (ok): camera = new
\* Camera(...); the handler waits for camera.start().  Rejected with e:
\* setupCamera rethrows.
CV_AvailabilitySettled(i, ok, e) ==
  /\ scanPc[i] = "checkAvailability"
  /\ IF ok
     THEN /\ Cardinality(liveCameras) < MaxCameras
          /\ camera' = NewCamera
          /\ liveCameras' = liveCameras \cup {NewCamera}
          /\ cameraState' = "starting"
          /\ scanPc' = [scanPc EXCEPT ![i] = "cameraStart"]
          /\ Observe("cameraCreated", FALSE, FALSE)
          /\ UNCHANGED <<vpsError, dom>>
     ELSE /\ CV_catch(i, e, "cameraFailed")
          /\ UNCHANGED mvCam
  /\ UNCHANGED <<vpsRunning, vpsPose, userVars, idleCV>>

\* camera.start() settled.  Resolved (ok): the scan is started.  Rejected with
\* e: setupCamera rethrows, the camera stays referenced.
CV_CameraStartSettled(i, ok, e) ==
  /\ scanPc[i] = "cameraStart"
  /\ cameraState' = IF camera # 0 THEN (IF ok THEN "started" ELSE "stopped") ELSE cameraState
  /\ IF ok
     THEN /\ CV_scanBegin(i, dom, vpsRunning)
          /\ Observe("cameraStarted", FALSE, FALSE)
          /\ UNCHANGED vpsError
     ELSE CV_catch(i, e, "cameraFailed")
  /\ UNCHANGED <<vpsRunning, vpsPose, camera, liveCameras, userVars, idleCV>>

\* scanPromise settled.  Resolved true: the handler waits for stopCamera() when
\* a camera exists and calls updateButtonStates() after that.  Resolved false:
\* it throws 'VPS scan failed' into its catch.  Rejected with e: the catch.
CV_ScanSettled(i, outcome, e) ==
  /\ scanPc[i] = "scan"
  /\ CASE outcome = "false" -> CV_catch(i, VpsScanFailed, "scanFalse")
       [] outcome = "rejected" -> CV_catch(i, e, "scanRejected")
       [] outcome = "true" ->
            /\ UNCHANGED vpsError
            /\ IF camera # 0
               THEN /\ scanPc' = [scanPc EXCEPT ![i] = "stopCamera"]
                    /\ UNCHANGED dom
                    /\ Observe("scanOk", FALSE, FALSE)
               ELSE /\ scanPc' = [scanPc EXCEPT ![i] = "idle"]
                    /\ dom' = updateButtonStates(dom, vpsRunning, destinationCoords,
                                                 isCalculatingRoute)
                    /\ Observe("scanDone", FALSE, FALSE)
  /\ UNCHANGED <<vpsRunning, vpsPose, mvCam, userVars, idleCV>>

\* stopCamera() of handleStartVPS: camera.stop() resolved (ok: release and
\* camera = null) or rejected (swallowed); then updateButtonStates().
CV_CameraStopped(i, ok) ==
  /\ scanPc[i] = "stopCamera"
  /\ scanPc' = [scanPc EXCEPT ![i] = "idle"]
  /\ camera' = IF ok THEN 0 ELSE camera
  /\ liveCameras' = IF ok THEN liveCameras \ {camera} ELSE liveCameras
  /\ cameraState' = IF ok /\ camera # 0 THEN "stopped" ELSE cameraState
  /\ dom' = updateButtonStates(dom, vpsRunning, destinationCoords, isCalculatingRoute)
  /\ Observe("scanDone", FALSE, FALSE)
  /\ UNCHANGED <<vpsRunning, vpsPose, vpsError, userVars, idleCV>>

\* vpsLocationSource.onUpdate callback: updatePositionDisplay();
\* updateMapUserPosition(); updateButtonStates(); updateNavigationInfo().
CV_OnUpdate(p) ==
  /\ vpsRunning
  /\ vpsPose' = p
  /\ dom' = updateNavigationInfo(
              updateButtonStates(updatePositionDisplay(dom, p),
                                 vpsRunning, destinationCoords, isCalculatingRoute),
              currentItinerary, p, imItinerary)
  /\ updateMapUserPosition(p, mapLoaded)
  /\ ObserveValue("onUpdate", p)
  /\ UNCHANGED <<vpsRunning, vpsError, mvCam, scanPc, idleCV>>

\* vpsLocationSource.onError callback: updateErrorDisplay().
CV_OnError(e) ==
  /\ vpsRunning
  /\ vpsError' = e
  /\ dom' = updateErrorDisplay(dom, e, routeError)
  /\ Observe("onError", FALSE, FALSE)
  /\ UNCHANGED <<vpsRunning, vpsPose, mvCam, scanPc, userVars, idleCV>>

InitCV ==
  /\ InitCommon
  /\ ServerUp
  /\ CoreSettled
  /\ BootDone
  /\ dom = RenderCB

\* The Start VPS button and the listeners of the source, with up to MaxScans
\* invocations of handleStartVPS suspended at the same time.
NextCV ==
  \/ \E i \in Scans : CV_ClickStartVPS(i)
  \/ \E i \in Scans, o \in {"true", "false", "rejected"}, e \in Errors : CV_PermissionsSettled(i, o, e)
  \/ \E i \in Scans, ok \in BOOLEAN, e \in Errors : CV_StartSettled(i, ok, e)
  \/ \E i \in Scans, ok \in BOOLEAN, e \in Errors : CV_AvailabilitySettled(i, ok, e)
  \/ \E i \in Scans, ok \in BOOLEAN, e \in Errors : CV_CameraStartSettled(i, ok, e)
  \/ \E i \in Scans, o \in {"true", "false", "rejected"}, e \in Errors : CV_ScanSettled(i, o, e)
  \/ \E i \in Scans, ok \in BOOLEAN : CV_CameraStopped(i, ok)
  \/ \E p \in Poses : CV_OnUpdate(p)
  \/ \E e \in Errors : CV_OnError(e)

SpecCombinedVps == InitCV /\ [][NextCV]_vars

\* ------------------------------- routing.ts, the page with the coordinate form
\* (second script of routing.ts: route requested from four number fields, test
\* position from two; updateUI() rewrites contentContainer.innerHTML.)
\* Distances (m) and durations (s) an itinerary of the router can report.
Distances == {0, 4, 995, 1234}
Durations == {0, 29, 30, 90}
RouteItineraries == [id : 1..MaxItin, ncoords : {2}, distance : Distances, duration : Durations]
\* What router.directions() can resolve with; the page takes itineraries[0].
RouteResults == {<<>>} \cup {<<it>> : it \in RouteItineraries}

\* What a coordinate field can hold: nothing that parses (the empty string
\* included), or the digits of a number.
FormInputs == {[text |-> "junk", n |-> 0], [text |-> "number", n |-> 1]}
\* parseFloat(input.value)
parseFloat(v) == IF v.text = "number" THEN v.n ELSE NaN

\* (metres / 1000).toFixed(2), in hundredths of a kilometre.
toFixed2Km(m) == (m + 5) \div 10
\* Math.round(seconds / 60)
roundMinutes(sec) == (sec + 30) \div 60

\* renderItineraryInfo(): the Distance and Duration lines.
renderDistance(it) ==
  IF it = NoItinerary THEN [kind |-> "none", n |-> 0]
  ELSE IF it.distance # 0 THEN [kind |-> "km", n |-> toFixed2Km(it.distance)]
       ELSE [kind |-> "N/A", n |-> 0]
renderDuration(it) ==
  IF it = NoItinerary THEN [kind |-> "none", n |-> 0]
  ELSE IF it.duration # 0 THEN [kind |-> "min", n |-> roundMinutes(it.duration)]
       ELSE [kind |-> "N/A", n |-> 0]

\* updateUI(): the template of contentContainer.innerHTML.
RenderRF(core, rt, re, calc, it, nav) ==
  [ coreStatus      |-> IF core THEN "Yes" ELSE "No",
    routerStatus    |-> IF rt THEN "Initialized" ELSE "Not Initialized",
    routeError      |-> re,
    initDisabled    |-> rt,
    calcDisabled    |-> (~rt \/ calc),
    calcText        |-> IF calc THEN "Calculating..." ELSE "Calculate Route",
    clearDisabled   |-> (it = NoItinerary),
    setTestDisabled |-> (it = NoItinerary),
    distance        |-> renderDistance(it),
    duration        |-> renderDuration(it),
    nav             |-> nav ]

\* updateMapRoute(): the route layer, and with it the origin and destination
\* markers at the ends of the route.
RF_updateMapRoute(it, loaded) ==
  /\ updateMapRoute(it, loaded)
  /\ IF map # Null /\ loaded /\ it # NoItinerary /\ it.ncoords > 0
     THEN /\ originMarker' = 1
          /\ destinationMarker' = 1
     ELSE UNCHANGED <<originMarker, destinationMarker>>

\* updateMapTestPosition(): tp is testPosition at the call.
updateMapTestPosition(tp, loaded) ==
  testPositionMarker' = IF map = Null \/ ~loaded \/ tp = 0 THEN 0 ELSE tp

\* Click on Initialize Router: initializeRouter(); ok: CoreConfig.getConfig()
\* and new Router() returned.
RF_InitRouter(ok, e) ==
  /\ ~dom.initDisabled
  /\ IF ok
     THEN /\ router' = TRUE
          /\ routeError' = routeError
          /\ dom' = RenderRF(coreInitialized, TRUE, routeError, isCalculatingRoute,
                             currentItinerary, navigationInfo)
          /\ Observe("routerInit", FALSE, FALSE)
     ELSE /\ router' = router
          /\ routeError' = e
          /\ dom' = RenderRF(coreInitialized, router, e, isCalculatingRoute,
                             currentItinerary, navigationInfo)
          /\ Observe("routerInitFailed", FALSE, FALSE)
  /\ UNCHANGED <<coreVars, currentItinerary, isCalculatingRoute, calcPending>>
  /\ UNCHANGED <<mapVars, routeVars, destinationMarker, testPosition, navigationInfo>>
  /\ UNCHANGED <<originMarker, testPositionMarker, idleRF>>

\* calculateRoute(from, to) up to await router.directions().
RF_calculateRoute ==
  IF ~router
  THEN /\ routeError' = "Router not initialized"
       /\ dom' = RenderRF(coreInitialized, router, "Router not initialized",
                          isCalculatingRoute, currentItinerary, navigationInfo)
       /\ UNCHANGED <<isCalculatingRoute, calcPending>>
       /\ ev' = "noRouter"
  ELSE /\ isCalculatingRoute' = TRUE
       /\ routeError' = Null
       /\ calcPending' = calcPending + 1
       /\ dom' = RenderRF(coreInitialized, router, Null, TRUE, currentItinerary, navigationInfo)
       /\ ev' = "calcStart"

\* A submit handler that calls calculateRoute whatever the fields hold.
RF_SubmitRouteUnchecked(f) ==
  /\ ~dom.calcDisabled
  /\ RF_calculateRoute
  /\ alerted' = FALSE
  /\ thrown' = FALSE
  /\ delivered' = f
  /\ UNCHANGED <<coreVars, currentItinerary, router, testPosition, navigationInfo>>
  /\ UNCHANGED <<mapVars, routeVars, destinationMarker, originMarker, testPositionMarker, idleRF>>

\* Submit of the route form: handleCalculateRoute(e); f holds the four fields
\* from-lat, from-lon, to-lat, to-lon.
RF_SubmitRoute(f) ==
  /\ ~dom.calcDisabled
  /\ IF \E i \in 1..4 : parseFloat(f[i]) = NaN
     THEN /\ ObserveAlert("formRefused", f)
          /\ UNCHANGED <<isCalculatingRoute, routeError, calcPending, dom>>
     ELSE /\ RF_calculateRoute
          /\ alerted' = FALSE
          /\ thrown' = FALSE
          /\ delivered' = f
  /\ UNCHANGED <<coreVars, currentItinerary, router, testPosition, navigationInfo>>
  /\ UNCHANGED <<mapVars, routeVars, destinationMarker, originMarker, testPositionMarker, idleRF>>

\* router.directions() resolved with its: the try block, then finally.
RF_RouteResolved(its) ==
  /\ calcPending > 0
  /\ calcPending' = calcPending - 1
  /\ LET it == IF Len(its) > 0 THEN its[1] ELSE NoItinerary
     IN /\ currentItinerary' = it
        /\ navigationInfo' = IF testPosition # 0 /\ it = NoItinerary THEN NoNav ELSE navigationInfo
        /\ IF testPosition # 0 /\ it # NoItinerary
           THEN updateMapTestPosition(testPosition, mapLoaded)
           ELSE UNCHANGED testPositionMarker
        /\ RF_updateMapRoute(it, mapLoaded)
        /\ isCalculatingRoute' = FALSE
        /\ dom' = RenderRF(coreInitialized, router, routeError, FALSE, it, navigationInfo')
        /\ IF it = NoItinerary
           THEN Observe("routeEmpty", FALSE, FALSE)
           ELSE ObserveValue("routeOk", it)
  /\ UNCHANGED <<coreVars, router, routeError, testPosition, mapVars, idleRF>>

\* router.directions() rejected with e: the catch block, then finally.
RF_RouteRejected(e) ==
  /\ calcPending > 0
  /\ calcPending' = calcPending - 1
  /\ routeError' = e
  /\ isCalculatingRoute' = FALSE
  /\ dom' = RenderRF(coreInitialized, router, e, FALSE, currentItinerary, navigationInfo)
  /\ Observe("routeFailed", FALSE, FALSE)
  /\ UNCHANGED <<coreVars, currentItinerary, router, testPosition, navigationInfo>>
  /\ UNCHANGED <<mapVars, routeVars, destinationMarker, originMarker, testPositionMarker, idleRF>>

\* A clear that also gives up the calculation in flight.
RF_ClearRouteAborting ==
  /\ ~dom.clearDisabled
  /\ currentItinerary' = NoItinerary
  /\ testPosition' = 0
  /\ navigationInfo' = NoNav
  /\ routeError' = Null
  /\ isCalculatingRoute' = FALSE
  /\ calcPending' = 0
  /\ dom' = RenderRF(coreInitialized, router, Null, FALSE, NoItinerary, NoNav)
  /\ updateMapRoute(NoItinerary, mapLoaded)
  /\ updateMapTestPosition(0, mapLoaded)
  /\ ObserveValue("clear", srcData)
  /\ UNCHANGED <<coreVars, router, mapVars>>
  /\ UNCHANGED <<destinationMarker, originMarker, idleRF>>

\* Click on Clear Route: handleClearRoute().
RF_ClearRoute ==
  /\ ~dom.clearDisabled
  /\ currentItinerary' = NoItinerary
  /\ testPosition' = 0
  /\ navigationInfo' = NoNav
  /\ routeError' = Null
  /\ dom' = RenderRF(coreInitialized, router, Null, isCalculatingRoute, NoItinerary, NoNav)
  /\ updateMapRoute(NoItinerary, mapLoaded)
  /\ updateMapTestPosition(0, mapLoaded)
  /\ ObserveValue("clear", srcData)
  /\ UNCHANGED <<coreVars, router, isCalculatingRoute, calcPending, mapVars>>
  /\ UNCHANGED <<destinationMarker, originMarker, idleRF>>

\* Click on Set Test Position: handleSetTestPosition(); the position is kept
\* by its latitude.  updateNavigationInfo() of this script resets
\* navigationInfo without an itinerary and otherwise only moves the marker.
RF_SetTestPosition(lat, lon) ==
  /\ ~dom.setTestDisabled
  /\ IF parseFloat(lat) = NaN \/ parseFloat(lon) = NaN
     THEN /\ ObserveAlert("testRefused", <<lat, lon>>)
          /\ UNCHANGED <<testPosition, navigationInfo, testPositionMarker, dom>>
     ELSE /\ testPosition' = parseFloat(lat)
          /\ navigationInfo' = IF currentItinerary = NoItinerary THEN NoNav ELSE navigationInfo
          /\ IF currentItinerary = NoItinerary
             THEN UNCHANGED testPositionMarker
             ELSE updateMapTestPosition(parseFloat(lat), mapLoaded)
          /\ dom' = RenderRF(coreInitialized, router, routeError, isCalculatingRoute,
                             currentItinerary, navigationInfo')
          /\ ObserveValue("testSet", <<lat, lon>>)
  /\ UNCHANGED <<coreVars, currentItinerary, router, isCalculatingRoute, routeError>>
  /\ UNCHANGED <<calcPending, mapVars, routeVars, destinationMarker, originMarker, idleRF>>

\* Bootstrap reaches initializeMap() with the map library present.
RF_InitializeMap ==
  /\ coreInit # "pending"
  /\ map = Null
  /\ map' = "map"
  /\ Observe("env", FALSE, FALSE)
  /\ UNCHANGED <<coreVars, currentItinerary, router, isCalculatingRoute, routeError>>
  /\ UNCHANGED <<calcPending, loadFired, mapLoaded, routeVars, destinationMarker, originMarker>>
  /\ UNCHANGED <<testPosition, navigationInfo, testPositionMarker, dom, idleRF>>

\* The map's 'load' event: updateMapRoute(); updateMapTestPosition().
RF_MapLoad ==
  /\ map # Null
  /\ ~loadFired
  /\ loadFired' = TRUE
  /\ mapLoaded' = TRUE
  /\ RF_updateMapRoute(currentItinerary, TRUE)
  /\ updateMapTestPosition(testPosition, TRUE)
  /\ Observe("mapLoad", FALSE, FALSE)
  /\ UNCHANGED <<coreVars, currentItinerary, router, isCalculatingRoute, routeError>>
  /\ UNCHANGED <<calcPending, map, testPosition, navigationInfo, dom, idleRF>>

\* The page while the script waits at its top-level await: #app is empty, no
\* control exists yet.
RF_NoPage ==
  [ coreStatus      |-> "none",
    routerStatus    |-> "none",
    routeError      |-> Null,
    initDisabled    |-> TRUE,
    calcDisabled    |-> TRUE,
    calcText        |-> "none",
    clearDisabled   |-> TRUE,
    setTestDisabled |-> TRUE,
    distance        |-> [kind |-> "none", n |-> 0],
    duration        |-> [kind |-> "none", n |-> 0],
    nav             |-> NoNav ]

\* The rest of the script once core.init() has settled: the bootstrap runs
\* initializeUIStructure() and updateUI(), which writes the page and wires the
\* buttons.
RF_Bootstrap(core) ==
  /\ dom' = RenderRF(core, router, routeError, isCalculatingRoute, currentItinerary,
                     navigationInfo)
  /\ UNCHANGED <<currentItinerary, router, isCalculatingRoute, routeError, calcPending>>
  /\ UNCHANGED <<mapVars, routeVars, destinationMarker, originMarker, testPosition>>
  /\ UNCHANGED <<navigationInfo, testPositionMarker, idleRF>>

\* await core.init() resolved: coreInitialized = true, then the bootstrap.
RF_CoreInitResolved ==
  /\ coreInit = "pending"
  /\ coreInit' = "resolved"
  /\ coreInitialized' = TRUE
  /\ RF_Bootstrap(TRUE)
  /\ Observe("coreInitOk", FALSE, FALSE)

\* A rejected core.init() that ends the script: nothing is written.
RF_CoreInitRejectedFatal ==
  /\ coreInit = "pending"
  /\ coreInit' = "rejected"
  /\ Observe("coreInitFailed", FALSE, FALSE)
  /\ UNCHANGED <<coreInitialized, dom>>
  /\ UNCHANGED <<currentItinerary, router, isCalculatingRoute, routeError, calcPending>>
  /\ UNCHANGED <<mapVars, routeVars, destinationMarker, originMarker, testPosition>>
  /\ UNCHANGED <<navigationInfo, testPositionMarker, idleRF>>

\* await core.init() rejected: the catch logs a warning, coreInitialized stays
\* false, then the bootstrap.
RF_CoreInitRejected ==
  /\ coreInit = "pending"
  /\ coreInit' = "rejected"
  /\ coreInitialized' = coreInitialized
  /\ RF_Bootstrap(coreInitialized)
  /\ Observe("coreInitFailed", FALSE, FALSE)

InitRF ==
  /\ InitCommon
  /\ ServerUp
  /\ coreInit = "pending"
  /\ coreInitialized = FALSE
  /\ BootDone
  /\ dom = RF_NoPage

NextRF ==
  \/ RF_CoreInitResolved
  \/ RF_CoreInitRejected
  \/ \E ok \in BOOLEAN, e \in Errors : RF_InitRouter(ok, e)
  \/ \E f \in [1..4 -> FormInputs] : RF_SubmitRoute(f)
  \/ \E its \in RouteResults : RF_RouteResolved(its)
  \/ \E e \in Errors : RF_RouteRejected(e)
  \/ RF_ClearRoute
  \/ \E lat, lon \in FormInputs : RF_SetTestPosition(lat, lon)
  \/ RF_InitializeMap
  \/ RF_MapLoad
  \/ MapBusy
  \/ MapIdle

SpecRouteForm == InitRF /\ [][NextRF]_vars

\* ------------------------------------ routing.ts, the page with the map popup
\* (first script of routing.ts: origin, destination and test position are
\* picked from a popup opened by a click on the map)

\* The itinerary router.directions() resolves with for a request from one
\* point to another.
RT_Itinerary(from, to) ==
  [id |-> (from - 1) * MaxCoord + to, ncoords |-> 2, from |-> from, to |-> to]

\* updateUI(): the elements it rewrites.
RenderRT(core, rt, re, calc, orig, dest, it, nav) ==
  [ coreStatus    |-> IF core THEN "Yes" ELSE "No",
    routerStatus  |-> IF rt THEN "Initialized" ELSE "Not Initialized",
    routeError    |-> re,
    initDisabled  |-> rt,
    calcDisabled  |-> (~rt \/ calc \/ orig = 0 \/ dest = 0),
    calcText      |-> IF calc THEN "Calculating..." ELSE "Calculate Route",
    clearDisabled |-> (it = NoItinerary),
    itinerary     |-> it,
    nav           |-> nav ]

\* updateMapRoute(): the route layer, and with a route drawn the origin and
\* destination markers at its ends (moved when they exist, else constructed).
RT_updateMapRoute(it, loaded, om, dm) ==
  /\ updateMapRoute(it, loaded)
  /\ IF map # Null /\ loaded /\ it # NoItinerary /\ it.ncoords > 0
     THEN /\ originMarker' = it.from
          /\ destinationMarker' = it.to
     ELSE /\ originMarker' = om
          /\ destinationMarker' = dm

\* updateOriginMarker() / updateDestinationMarker(): the marker a call leaves,
\* m being the marker before it.
RT_updateMarker(m, c, loaded) == IF map = Null \/ ~loaded THEN m ELSE c

\* updateNavigationInfo(): the value it leaves in navigationInfo.
RT_navigationInfo(im, tp, it) ==
  IF im = NoItinerary \/ tp = 0 \/ it = NoItinerary
  THEN NoNav
  ELSE [itin |-> im.id, pos |-> tp]

\* Click on Initialize Router: initializeRouter(); ok: new Router() returned.
RT_InitRouter(ok, e) ==
  /\ ~dom.initDisabled
  /\ router' = (IF ok THEN TRUE ELSE router)
  /\ routeError' = (IF ok THEN routeError ELSE e)
  /\ dom' = RenderRT(coreInitialized, router', routeError', isCalculatingRoute,
                     originPosition, destinationPosition, currentItinerary, navigationInfo)
  /\ Observe(IF ok THEN "routerInit" ELSE "routerInitFailed", FALSE, FALSE)
  /\ UNCHANGED <<coreVars, currentItinerary, imItinerary, isCalculatingRoute, mapVars, routeVars>>
  /\ UNCHANGED <<destinationMarker, testPosition, navigationInfo, originPosition>>
  /\ UNCHANGED <<destinationPosition, originMarker, testPositionMarker, popup, calls, latest>>
  /\ UNCHANGED idleRT

\* Click on the map: the open popup is removed and a new one is opened at the
\* point, with a Set as Test Position button when an itinerary exists.
RT_MapClick(c) ==
  /\ map # Null
  /\ popup' = [open |-> TRUE, at |-> c, test |-> (currentItinerary # NoItinerary)]
  /\ Observe("mapClick", FALSE, FALSE)
  /\ UNCHANGED <<coreVars, currentItinerary, imItinerary, isCalculatingRoute, routeError>>
  /\ UNCHANGED <<mapVars, routeVars, destinationMarker, router, testPosition, navigationInfo>>
  /\ UNCHANGED <<originPosition, destinationPosition, originMarker, testPositionMarker>>
  /\ UNCHANGED <<calls, latest, dom, idleRT>>

\* Popup button Set as Origin.
RT_SetAsOrigin ==
  /\ popup.open
  /\ originPosition' = popup.at
  /\ originMarker' = RT_updateMarker(originMarker, popup.at, mapLoaded)
  /\ dom' = RenderRT(coreInitialized, router, routeError, isCalculatingRoute,
                     popup.at, destinationPosition, currentItinerary, navigationInfo)
  /\ popup' = NoPopup
  /\ Observe("setOrigin", FALSE, FALSE)
  /\ UNCHANGED <<coreVars, currentItinerary, imItinerary, isCalculatingRoute, routeError>>
  /\ UNCHANGED <<mapVars, routeVars, destinationMarker, router, testPosition, navigationInfo>>
  /\ UNCHANGED <<destinationPosition, testPositionMarker, calls, latest, idleRT>>

\* calculateRoute(from, to) up to await router.directions(): the callers have
\* looked at router, the branch for no router is kept as in the source; rerr
\* is routeError at the call.
RT_calculateRoute(from, to) ==
  IF ~router
  THEN /\ routeError' = "Router not initialized"
       /\ dom' = RenderRT(coreInitialized, router, "Router not initialized", isCalculatingRoute,
                          originPosition', destinationPosition', currentItinerary,
                          navigationInfo)
       /\ UNCHANGED <<isCalculatingRoute, calls, latest>>
  ELSE /\ isCalculatingRoute' = TRUE
       /\ routeError' = Null
       /\ dom' = RenderRT(coreInitialized, router, Null, TRUE,
                          originPosition', destinationPosition', currentItinerary,
                          navigationInfo)
       /\ calls' = Append(calls, [from |-> from, to |-> to])
       /\ latest' = [from |-> from, to |-> to, status |-> "pending"]

\* Popup button Set as Destination: with an origin and a router the route is
\* calculated at once, whether or not a calculation is in flight.
RT_SetAsDestination ==
  /\ popup.open
  /\ Len(calls) < MaxCalc
  /\ destinationPosition' = popup.at
  /\ destinationMarker' = RT_updateMarker(destinationMarker, popup.at, mapLoaded)
  /\ UNCHANGED originPosition
  /\ IF originPosition # 0 /\ router
     THEN /\ RT_calculateRoute(originPosition, popup.at)
          /\ Observe("calcStart", FALSE, FALSE)
     ELSE /\ dom' = RenderRT(coreInitialized, router, routeError, isCalculatingRoute,
                             originPosition, popup.at, currentItinerary, navigationInfo)
          /\ Observe("setDestination", FALSE, FALSE)
          /\ UNCHANGED <<isCalculatingRoute, routeError, calls, latest>>
  /\ popup' = NoPopup
  /\ UNCHANGED <<coreVars, currentItinerary, imItinerary, mapVars, routeVars, router>>
  /\ UNCHANGED <<testPosition, navigationInfo, originMarker, testPositionMarker, idleRT>>

\* Popup button Set as Test Position (on a popup opened while an itinerary
\* existed): testPosition, updateNavigationInfo(), updateUI().
RT_SetAsTestPosition ==
  /\ popup.open
  /\ popup.test
  /\ testPosition' = popup.at
  /\ navigationInfo' = RT_navigationInfo(imItinerary, popup.at, currentItinerary)
  /\ updateMapTestPosition(popup.at, mapLoaded)
  /\ dom' = RenderRT(coreInitialized, router, routeError, isCalculatingRoute,
                     originPosition, destinationPosition, currentItinerary, navigationInfo')
  /\ popup' = NoPopup
  /\ Observe("testSet", FALSE, FALSE)
  /\ UNCHANGED <<coreVars, currentItinerary, imItinerary, isCalculatingRoute, routeError>>
  /\ UNCHANGED <<mapVars, routeVars, destinationMarker, router, originPosition>>
  /\ UNCHANGED <<destinationPosition, originMarker, calls, latest, idleRT>>

\* Click on Calculate Route.
RT_ClickCalculate ==
  /\ ~dom.calcDisabled
  /\ Len(calls) < MaxCalc
  /\ UNCHANGED <<originPosition, destinationPosition>>
  /\ IF originPosition # 0 /\ destinationPosition # 0 /\ router
     THEN /\ RT_calculateRoute(originPosition, destinationPosition)
          /\ Observe("calcStart", FALSE, FALSE)
     ELSE /\ Observe("click", FALSE, FALSE)
          /\ UNCHANGED <<isCalculatingRoute, routeError, calls, latest, dom>>
  /\ UNCHANGED <<coreVars, currentItinerary, imItinerary, mapVars, routeVars, destinationMarker>>
  /\ UNCHANGED <<router, testPosition, navigationInfo, originMarker, testPositionMarker>>
  /\ UNCHANGED <<popup, idleRT>>

\* The calls left when call k has completed, and what is then known of the
\* most recent request.
RT_Completed(k) == SubSeq(calls, 1, k - 1) \o SubSeq(calls, k + 1, Len(calls))
RT_LatestAfter(k, status) ==
  IF k = Len(calls) /\ latest.status = "pending"
  THEN [latest EXCEPT !.status = status]
  ELSE latest

\* router.directions() of call k resolved, with one itinerary or with none
\* (itineraries[0] is then undefined): currentItinerary, the info manager,
\* updateNavigationInfo() when a test position is set, updateUI(),
\* updateMapRoute(), and the finally block.
RT_RouteResolved(k, empty) ==
  /\ k \in 1..Len(calls)
  /\ calls' = RT_Completed(k)
  /\ latest' = RT_LatestAfter(k, IF empty THEN "empty" ELSE "ok")
  /\ LET it == IF empty THEN NoItinerary ELSE RT_Itinerary(calls[k].from, calls[k].to)
     IN /\ currentItinerary' = it
        /\ imItinerary' = it
        /\ IF testPosition # 0
           THEN /\ navigationInfo' = RT_navigationInfo(it, testPosition, it)
                /\ updateMapTestPosition(testPosition, mapLoaded)
           ELSE UNCHANGED <<navigationInfo, testPositionMarker>>
        /\ RT_updateMapRoute(it, mapLoaded, originMarker, destinationMarker)
        /\ isCalculatingRoute' = FALSE
        /\ dom' = RenderRT(coreInitialized, router, routeError, FALSE,
                           originPosition, destinationPosition, it, navigationInfo')
        /\ IF empty THEN Observe("routeEmpty", FALSE, FALSE) ELSE ObserveValue("routeOk", it)
  /\ UNCHANGED <<coreVars, routeError, mapVars, router, testPosition, originPosition>>
  /\ UNCHANGED <<destinationPosition, popup, idleRT>>

\* router.directions() of call k rejected with e: catch and finally.
RT_RouteRejected(k, e) ==
  /\ k \in 1..Len(calls)
  /\ calls' = RT_Completed(k)
  /\ latest' = RT_LatestAfter(k, "failed")
  /\ routeError' = e
  /\ isCalculatingRoute' = FALSE
  /\ dom' = RenderRT(coreInitialized, router, e, FALSE,
                     originPosition, destinationPosition, currentItinerary, navigationInfo)
  /\ Observe("routeFailed", FALSE, FALSE)
  /\ UNCHANGED <<coreVars, currentItinerary, imItinerary, mapVars, routeVars, destinationMarker>>
  /\ UNCHANGED <<router, testPosition, navigationInfo, originPosition, destinationPosition>>
  /\ UNCHANGED <<originMarker, testPositionMarker, popup, idleRT>>

\* Click on Clear Route: handleClearRoute().
RT_ClearRoute ==
  /\ ~dom.clearDisabled
  /\ currentItinerary' = NoItinerary
  /\ testPosition' = 0
  /\ navigationInfo' = NoNav
  /\ routeError' = Null
  /\ originPosition' = 0
  /\ destinationPosition' = 0
  /\ imItinerary' = NoItinerary
  /\ testPositionMarker' = 0
  /\ RT_updateMapRoute(NoItinerary, mapLoaded, 0, 0)
  /\ dom' = RenderRT(coreInitialized, router, Null, isCalculatingRoute, 0, 0, NoItinerary, NoNav)
  /\ ObserveValue("clear", srcData)
  /\ UNCHANGED <<coreVars, isCalculatingRoute, mapVars, router, popup, calls, latest, idleRT>>

\* Bootstrap reaches initializeMap() with the map library present.
RT_InitializeMap ==
  /\ map = Null
  /\ map' = "map"
  /\ Observe("env", FALSE, FALSE)
  /\ UNCHANGED <<coreVars, currentItinerary, imItinerary, isCalculatingRoute, routeError>>
  /\ UNCHANGED <<loadFired, mapLoaded, routeVars, destinationMarker, rtVars, dom, idleRT>>

\* The map's 'load' event: updateMapRoute(); updateMapTestPosition(); the
\* markers of the stored origin and destination.
RT_MapLoad ==
  /\ map # Null
  /\ ~loadFired
  /\ loadFired' = TRUE
  /\ mapLoaded' = TRUE
  /\ updateMapRoute(currentItinerary, TRUE)
  /\ updateMapTestPosition(testPosition, TRUE)
  /\ originMarker' = (IF originPosition # 0 THEN originPosition
                      ELSE IF currentItinerary # NoItinerary THEN currentItinerary.from
                      ELSE originMarker)
  /\ destinationMarker' = (IF destinationPosition # 0 THEN destinationPosition
                           ELSE IF currentItinerary # NoItinerary THEN currentItinerary.to
                           ELSE destinationMarker)
  /\ Observe("mapLoad", FALSE, FALSE)
  /\ UNCHANGED <<coreVars, currentItinerary, imItinerary, isCalculatingRoute, routeError>>
  /\ UNCHANGED <<map, router, testPosition, navigationInfo, originPosition>>
  /\ UNCHANGED <<destinationPosition, popup, calls, latest, dom, idleRT>>

\* The page after its bootstrap, core.init() having resolved.
InitRT ==
  /\ InitCommon
  /\ ServerUp
  /\ coreInit = "resolved"
  /\ coreInitialized = TRUE
  /\ BootDone
  /\ dom = RenderRT(coreInitialized, FALSE, Null, FALSE, 0, 0, NoItinerary, NoNav)

\* map.loaded() is false up to the 'load' event and true from then on.
NextRT ==
  \/ \E ok \in BOOLEAN, e \in Errors : RT_InitRouter(ok, e)
  \/ \E c \in 1..MaxCoord : RT_MapClick(c)
  \/ RT_SetAsOrigin
  \/ RT_SetAsDestination
  \/ RT_SetAsTestPosition
  \/ RT_ClickCalculate
  \/ \E k \in 1..MaxCalc, empty \in BOOLEAN : RT_RouteResolved(k, empty)
  \/ \E k \in 1..MaxCalc, e \in Errors : RT_RouteRejected(k, e)
  \/ RT_ClearRoute
  \/ RT_InitializeMap
  \/ RT_MapLoad

SpecRouting == InitRT /\ [][NextRT]_vars

\* ------------------------------------------------- dev server (vite config)
\* Start-up of the dev server: the configuration module is evaluated (the
\* certificate files are looked for), then the server probes ports from
\* DevPort upwards and listens on the first one that is free.  Before the
\* start-up the certificate files can be generated and other processes can
\* take or give up ports.

\* mkcert -key-file .certs/key.pem -cert-file .certs/cert.pem ...: both files
\* are written.
Dev_Mkcert ==
  /\ serverPc = "config"
  /\ ~(certExists /\ keyExists)
  /\ certExists' = TRUE
  /\ keyExists' = TRUE
  /\ Observe("env", FALSE, FALSE)
  /\ UNCHANGED <<httpsConfig, serverPc, serverPort, serverHttps, portsTaken, idleDev>>

\* Another process starts listening on port p.
Dev_PortTaken(p) ==
  /\ serverPc = "config"
  /\ p \notin portsTaken
  /\ portsTaken' = portsTaken \cup {p}
  /\ Observe("env", FALSE, FALSE)
  /\ UNCHANGED <<certExists, keyExists, httpsConfig, serverPc, serverPort, serverHttps, idleDev>>

\* The process listening on port p exits.
Dev_PortFreed(p) ==
  /\ serverPc = "config"
  /\ p \in portsTaken
  /\ portsTaken' = portsTaken \ {p}
  /\ Observe("env", FALSE, FALSE)
  /\ UNCHANGED <<certExists, keyExists, httpsConfig, serverPc, serverPort, serverHttps, idleDev>>

\* A configuration that looks for the certificate only.
Dev_LoadConfigCertOnly ==
  /\ serverPc = "config"
  /\ httpsConfig' = certExists
  /\ serverPc' = "probing"
  /\ serverPort' = DevPort
  /\ Observe("config", FALSE, FALSE)
  /\ UNCHANGED <<certExists, keyExists, serverHttps, portsTaken, idleDev>>

\* npm run dev: the configuration module is evaluated; httpsConfig is defined
\* when both files exist, else undefined; server.port is DevPort.
Dev_LoadConfig ==
  /\ serverPc = "config"
  /\ httpsConfig' = (certExists /\ keyExists)
  /\ serverPc' = "probing"
  /\ serverPort' = DevPort
  /\ Observe("config", FALSE, FALSE)
  /\ UNCHANGED <<certExists, keyExists, serverHttps, portsTaken, idleDev>>

\* strictPort: false: a taken port makes the server try the next one; on a
\* free port it listens, over HTTPS when server.https was given.
Dev_ProbePort ==
  /\ serverPc = "probing"
  /\ IF serverPort \in portsTaken
     THEN /\ serverPort' = serverPort + 1
          /\ UNCHANGED <<serverPc, serverHttps>>
          /\ Observe("portBusy", FALSE, FALSE)
     ELSE /\ serverPc' = "listening"
          /\ serverHttps' = httpsConfig
          /\ UNCHANGED serverPort
          /\ Observe("listening", FALSE, FALSE)
  /\ UNCHANGED <<certExists, keyExists, httpsConfig, portsTaken, idleDev>>

InitDev ==
  /\ InitCommon
  /\ coreInit = "pending"
  /\ coreInitialized = FALSE
  /\ BootDone
  /\ dom = RF_NoPage
  /\ certExists \in BOOLEAN
  /\ keyExists \in BOOLEAN
  /\ httpsConfig = FALSE
  /\ serverPc = "config"
  /\ serverPort = 0
  /\ serverHttps = FALSE
  /\ portsTaken = {}

NextDev ==
  \/ Dev_Mkcert
  \/ \E p \in WatchedPorts : Dev_PortTaken(p)
  \/ \E p \in WatchedPorts : Dev_PortFreed(p)
  \/ Dev_LoadConfig
  \/ Dev_ProbePort

SpecDevServer == InitDev /\ [][NextDev]_vars

\* ---------------------------------------------- bootstrap: waiting for MapLibre
\* The page's bootstrap (map-matching.ts; the other map pages have the same
\* code): a first check 100 ms after start-up, then an interval that looks for
\* the library every PollIntervalMs until it is found or until the timeout
\* PollTimeoutMs later clears the interval.
PollIntervalMs == 100
PollTimeoutMs == 5000

\* The interval callbacks that come due up to the timeout's deadline; the last
\* of them comes due together with the timeout and runs only if it comes first.
PollTicks == PollTimeoutMs \div PollIntervalMs

\* initializeMap() up to the construction of the map widget.
initializeMap ==
  IF map # Null \/ ~maplibregl \/ ~mapContainer
  THEN UNCHANGED <<map, mapNew>>
  ELSE /\ map' = "map"
       /\ mapNew' = mapNew + 1

\* The library script finishes loading and defines the global.
LibraryLoads ==
  /\ ~maplibregl
  /\ maplibregl' = TRUE
  /\ libLoadedAt' = CASE bootPc = "initial" -> "initial"
                       [] stopTimer -> "polling"
                       [] OTHER -> "late"
  /\ libLoadedTick' = ticks
  /\ UNCHANGED <<map, mapContainer, bootPc, checkMapLibre, stopTimer, ticks, mapNew>>
  /\ UNCHANGED idleBoot

\* The first setTimeout callback: construct the map, or start polling and arm
\* the timeout.
Boot_InitialCheck ==
  /\ bootPc = "initial"
  /\ IF maplibregl
     THEN /\ initializeMap
          /\ bootPc' = "done"
          /\ UNCHANGED <<checkMapLibre, stopTimer>>
     ELSE /\ checkMapLibre' = TRUE
          /\ stopTimer' = TRUE
          /\ bootPc' = "polling"
          /\ UNCHANGED <<map, mapNew>>
  /\ UNCHANGED <<maplibregl, mapContainer, ticks, libLoadedAt, libLoadedTick>>
  /\ UNCHANGED idleBoot

\* An interval callback that goes on polling after it has found the library and
\* constructs a map widget whatever the page already holds.
Boot_TickKeepsPolling ==
  /\ checkMapLibre
  /\ ticks < PollTicks
  /\ ticks' = ticks + 1
  /\ IF maplibregl /\ mapContainer
     THEN /\ map' = "map"
          /\ mapNew' = mapNew + 1
     ELSE UNCHANGED <<map, mapNew>>
  /\ UNCHANGED <<maplibregl, mapContainer, bootPc, checkMapLibre, stopTimer, libLoadedAt, libLoadedTick>>
  /\ UNCHANGED idleBoot

\* The setInterval callback: once the library is there, clearInterval and
\* initializeMap().
Boot_Tick ==
  /\ checkMapLibre
  /\ ticks < PollTicks
  /\ ticks' = ticks + 1
  /\ IF maplibregl
     THEN /\ checkMapLibre' = FALSE
          /\ initializeMap
     ELSE UNCHANGED <<checkMapLibre, map, mapNew>>
  /\ UNCHANGED <<maplibregl, mapContainer, bootPc, stopTimer, libLoadedAt, libLoadedTick>>
  /\ UNCHANGED idleBoot

\* A timeout callback that leaves the interval running.
Boot_TimeoutKeepsPolling ==
  /\ stopTimer
  /\ ~checkMapLibre \/ ticks >= PollTicks - 1
  /\ stopTimer' = FALSE
  /\ UNCHANGED <<maplibregl, mapContainer, bootPc, checkMapLibre, ticks, map, mapNew, libLoadedAt, libLoadedTick>>
  /\ UNCHANGED idleBoot

\* The second setTimeout callback: clearInterval(checkMapLibre). It comes due
\* with the last interval callback, after all the earlier ones.
Boot_Timeout ==
  /\ stopTimer
  /\ ~checkMapLibre \/ ticks >= PollTicks - 1
  /\ stopTimer' = FALSE
  /\ checkMapLibre' = FALSE
  /\ UNCHANGED <<maplibregl, mapContainer, bootPc, ticks, map, mapNew, libLoadedAt, libLoadedTick>>
  /\ UNCHANGED idleBoot

InitBoot ==
  /\ InitCommon
  /\ ServerUp
  /\ CoreSettled
  /\ dom = RenderMM(coreInitialized, FALSE, Null, NoPose, 0, NoItinerary, 0)
  /\ maplibregl \in BOOLEAN
  /\ mapContainer \in BOOLEAN
  /\ bootPc = "initial"
  /\ checkMapLibre = FALSE
  /\ stopTimer = FALSE
  /\ ticks = 0
  /\ mapNew = 0
  /\ libLoadedAt = IF maplibregl THEN "initial" ELSE "never"
  /\ libLoadedTick = 0

NextBoot ==
  \/ LibraryLoads
  \/ Boot_InitialCheck
  \/ Boot_Tick
  \/ Boot_Timeout

SpecBoot == InitBoot /\ [][NextBoot]_vars

\* Polling is over: the first check has run and the interval is not active.
PollingOver == bootPc # "initial" /\ ~checkMapLibre

\* ------------------------------------------------------------------ claims
\* C1: starting a location source and then stopping it (the source was
\* running and stop() resolved) leaves the stopped display state: the running
\* flag is false, the status reads Stopped and the stop control is disabled.
C1_StartThenStopShowsStopped ==
  [][(gnssRunning /\ ev' = "stopOk")
       => (~gnssRunning' /\ dom'.status = "Stopped" /\ dom'.stopDisabled)]_vars

\* C2: every failure of an SDK call made inside a handler is caught, stored
\* in the page's error variable, shown as inline text and raised as an alert,
\* and does not leave the handler.
C2_SdkFailureStoredShownAlerted ==
  ev \in {"startFailed", "stopFailed", "createFailed"}
    => (~thrown /\ gnssError # Null /\ dom.error = gnssError /\ alerted)

\* C3: a route calculation that fails (router.directions rejects, or
\* resolves with an empty list) records a route error and clears the
\* calculating flag, and neither the step that started the calculation nor the
\* step that ended it touches the current itinerary, the itinerary registered
\* with MapMatching, the itinerary of the itinerary-info manager or the drawn
\* route.
C3_FailedRouteLeavesItineraryAndRoute ==
  [][/\ ev' = "calcStart" =>
          UNCHANGED <<currentItinerary, mmItinerary, imItinerary, routeVars>>
     /\ ev' = "routeFailed" =>
          /\ routeError' # Null
          /\ dom'.routeError = routeError'
          /\ ~isCalculatingRoute'
          /\ UNCHANGED <<currentItinerary, mmItinerary, imItinerary, routeVars>>]_vars

\* A calculation has just failed on a page that holds an earlier itinerary,
\* registered with the SDK and drawn on the map.
C3_FailedAfterDrawnRoute ==
  /\ ev = "routeFailed"
  /\ currentItinerary # NoItinerary
  /\ mmItinerary = currentItinerary
  /\ imItinerary = currentItinerary
  /\ hasLayer
  /\ srcData = currentItinerary

\* C4: the clear action leaves the page with no current itinerary (none
\* registered with MapMatching either), takes the route source and the route
\* layer off the map, and puts the itinerary display back to its empty state.
C4_ClearRemovesRouteAndResetsDisplay ==
  ev = "clear" =>
    /\ currentItinerary = NoItinerary
    /\ mmItinerary = NoItinerary
    /\ routeSourceId = Null
    /\ srcData = NoItinerary
    /\ ~hasLayer
    /\ dom.mmStatus = "Inactive"
    /\ dom.itinInfo = 0

\* The clear action has just run on a page whose itinerary was drawn on the map.
C4_ClearedADrawnRoute ==
  /\ ev = "clear"
  /\ delivered # NoItinerary
  /\ ~hasLayer

\* The steps taken by the map's click handler.
MapClickEvents == {"mapClickIgnored", "mapClickRefused", "setDestination"}

\* C11 as stated: a map click made while the location source is not running
\* or the current pose has no position raises an alert and leaves
\* destinationCoords, the destination marker and the button states unchanged.
C11_RefusedMapClickAlerts ==
  [][(ev' \in MapClickEvents /\ (~gnssRunning \/ ~HasPosition(gnssPose))) =>
       /\ alerted'
       /\ UNCHANGED destVars
       /\ dom'.startItineraryDisabled = dom.startItineraryDisabled
       /\ dom'.updateLevelDisabled = dom.updateLevelDisabled
       /\ dom'.startDisabled = dom.startDisabled]_vars

\* C11 amended: such a click never sets a destination (destinationCoords, the
\* destination marker and the button states are unchanged); it raises an alert
\* exactly when map.loaded() is true, and is dropped silently when it is false.
C11_RefusedMapClickSetsNothing ==
  [][(ev' \in MapClickEvents /\ (~gnssRunning \/ ~HasPosition(gnssPose))) =>
       /\ alerted' <=> mapLoaded
       /\ UNCHANGED destVars
       /\ dom'.startItineraryDisabled = dom.startItineraryDisabled
       /\ dom'.updateLevelDisabled = dom.updateLevelDisabled
       /\ dom'.startDisabled = dom.startDisabled]_vars

\* A click was refused with an alert on a page that already had a destination:
\* the source runs, and the pose that came last carries no position.
C11_RefusedWithDestinationKept ==
  /\ ev = "mapClickRefused"
  /\ alerted
  /\ gnssRunning
  /\ ~HasPosition(gnssPose)
  /\ destinationCoords # NoDestination
  /\ destinationMarker # 0

\* The steps taken by the submit handler of the route form.
SubmitEvents == {"formRefused", "calcStart", "noRouter"}

\* C12: a submit of the route form with one of its four fields not parseable
\* as a number raises the validation alert and calls router.directions not at
\* all; the current itinerary, the route error and the calculating flag stay.
C12_BadCoordinatesBlockTheCall ==
  [][(ev' \in SubmitEvents /\ \E i \in 1..4 : parseFloat(delivered'[i]) = NaN) =>
       /\ alerted'
       /\ calcPending' = calcPending
       /\ UNCHANGED <<currentItinerary, routeError, isCalculatingRoute>>]_vars

\* A submit with one bad field among good ones was refused on a page that
\* holds an itinerary and a route error from earlier calculations.
C12_RefusedWithOneBadField ==
  /\ ev = "formRefused"
  /\ alerted
  /\ \E i, j \in 1..4 : parseFloat(delivered[i]) = NaN /\ parseFloat(delivered[j]) # NaN
  /\ currentItinerary # NoItinerary
  /\ routeError # Null
  /\ calcPending = 0

\* The steps that read the destination-level field.
LevelReadEvents == {"setDestination", "updateLevel", "levelRefused"}

\* C13: whenever the level field is non-empty and does not parse as an
\* integer, the action that reads it (Update Level, or a map click that sets
\* the destination) raises an alert and leaves the destination unchanged.
C13_InvalidLevelIsBlocked ==
  [][(ev' \in LevelReadEvents /\ delivered'.text = "junk") =>
       /\ alerted'
       /\ destinationCoords' = destinationCoords]_vars

\* The steps in which an awaited router.directions() call completes.
RouteCompletionEvents == {"routeOk", "routeEmpty", "routeFailed"}

C15_AtMostOneLiveCamera == Cardinality(liveCameras) <= 1

\* C16: the navigation info shown is the info of the current itinerary at the
\* current test position, and it is empty exactly when there is no current
\* itinerary or no position.
C16_NavigationInfoIsDerived ==
  dom.nav = IF currentItinerary = NoItinerary \/ testPosition = 0
            THEN NoNav
            ELSE [itin |-> currentItinerary.id, pos |-> testPosition]

\* C17: after a successful route calculation the distance shown is the
\* itinerary's distance in km with two decimals and the duration shown is its
\* duration rounded to whole minutes, for every distance >= 0 and duration >= 0.
C17_RenderedDistanceAndDuration ==
  ev = "routeOk" =>
    /\ dom.distance = [kind |-> "km", n |-> toFixed2Km(delivered.distance)]
    /\ dom.duration = [kind |-> "min", n |-> roundMinutes(delivered.duration)]

\* C18: a failing core initialisation is not fatal: coreInitialized is true
\* exactly when core.init() resolved, and after a rejection the page is
\* written all the same, shows core status "No" and has its router controls
\* working (Initialize Router enabled until a router exists, Calculate Route
\* enabled with a router and no calculation in flight).
C18_FailedCoreInitIsNotFatal ==
  /\ coreInitialized <=> (coreInit = "resolved")
  /\ coreInit = "rejected" =>
       /\ dom # RF_NoPage
       /\ dom.coreStatus = "No"
       /\ dom.initDisabled = router
       /\ dom.calcDisabled = (~router \/ isCalculatingRoute)

\* After a rejected core.init() a router was initialised and a route calculated.
C18_RouteAfterFailedCoreInit ==
  /\ coreInit = "rejected"
  /\ ~coreInitialized
  /\ dom.coreStatus = "No"
  /\ router
  /\ ev = "routeOk"
  /\ currentItinerary # NoItinerary

StartItineraryEvents == {"clickRefused", "calcStart"}

\* C20: router.directions() is called only when the current pose has a
\* position and a destination is set; a click on Start Itinerary without them
\* raises an alert and neither calls the router nor sets the calculating flag.
C20_DirectionsOnlyWithPreconditions ==
  [][/\ calcPending' > calcPending =>
          (HasPosition(gnssPose) /\ destinationCoords # NoDestination)
     /\ (ev' \in StartItineraryEvents
          /\ (~HasPosition(gnssPose) \/ destinationCoords = NoDestination)) =>
          /\ ev' = "clickRefused"
          /\ alerted'
          /\ calcPending' = calcPending
          /\ isCalculatingRoute' = isCalculatingRoute]_vars

\* Start Itinerary was refused: the button was enabled (source running,
\* destination set) but the last pose carried no position.
C20_RefusedWithoutPosition ==
  /\ ev = "clickRefused"
  /\ alerted
  /\ gnssRunning
  /\ destinationCoords # NoDestination
  /\ ~HasPosition(gnssPose)
  /\ ~isCalculatingRoute
  /\ calcPending = 0

\* C21: at most one router.directions() call is pending at any time, and
\* while one is pending the calculating flag is set and the Start Itinerary
\* button is disabled, whatever pose updates arrive meanwhile; once none is
\* pending the flag is clear again, on the success and on the failure path.
C21_OneCalculationAtATime ==
  /\ calcPending <= 1
  /\ isCalculatingRoute <=> (calcPending > 0)
  /\ calcPending > 0 => dom.startItineraryDisabled

\* A pose with a position arrived during a calculation on a page whose
\* button would otherwise be enabled.
C21_PoseUpdateWhileCalculating ==
  /\ ev = "onUpdate"
  /\ HasPosition(delivered)
  /\ calcPending = 1
  /\ gnssRunning
  /\ destinationCoords # NoDestination
  /\ dom.startItineraryDisabled

\* C22: in the Routing page the calculating flag is set, and the Calculate
\* Route button disabled and labelled 'Calculating...', exactly while at least
\* one route calculation is pending, calculations started from the popup's
\* Set as Destination included.
C22_CalculatingIffPending ==
  /\ isCalculatingRoute <=> (Len(calls) > 0)
  /\ Len(calls) > 0 => (dom.calcDisabled /\ dom.calcText = "Calculating...")

\* C23: once every route calculation of the Routing page has completed, an
\* itinerary held by the page is the result of the most recently requested
\* calculation (that request having resolved with an itinerary), whatever
\* the order in which overlapping calculations completed.
C23_LatestRequestWins ==
  (Len(calls) = 0 /\ latest.status = "ok" /\ currentItinerary # NoItinerary)
    => currentItinerary = RT_Itinerary(latest.from, latest.to)

\* C24: in the Routing page, while no origin and no destination is set (as
\* Clear Route leaves the page, until the user sets new points) there is no
\* current itinerary, no navigation info, no route layer and none of the
\* three markers, also when a calculation that was in flight completes.
C24_ClearedPageStaysEmpty ==
  (originPosition = 0 /\ destinationPosition = 0) =>
    /\ currentItinerary = NoItinerary
    /\ navigationInfo = NoNav
    /\ ~hasLayer
    /\ originMarker = 0
    /\ destinationMarker = 0
    /\ testPositionMarker = 0

\* C25: between handlers the itinerary registered with MapMatching and the
\* page's currentItinerary agree (both absent, or the same itinerary), also
\* after an itinerary creation or a route calculation in which an SDK call
\* threw.
C25_RegisteredItineraryIsCurrent == mmItinerary = currentItinerary

\* The steps with which handleStartVPSScan finishes after startScan() has
\* settled: it resolved false, it rejected, it resolved true (and the camera,
\* when there is one, has been stopped).
ScanEndEvents == {"scanFalse", "scanRejected", "scanDone"}

\* C26: when the start-scan handler has finished after startScan() settled,
\* whether it resolved true, resolved false or rejected, isScanning is false
\* and the scan status shows stopped.
C26_ScanEndShowsStopped ==
  ev \in ScanEndEvents => (~isScanning /\ dom.scanStatus = "Stopped")

\* C27 (map-matching page fed by VPSLocationSource): a scan is shown as running
\* only while the source is running: isScanning implies vpsRunning in every
\* state, whatever the order of Start Source, Stop Source, Start Scan and Stop
\* Scan and whether or not stopScan() succeeds.
C27_ScanningImpliesRunning ==
  isScanning => vpsRunning

\* C28 (VPS page): the camera brackets the scan: startScan() is called straight
\* after the permission step only when a camera already exists (without one the
\* camera is set up first), and when a scan that succeeded has been handled
\* the camera is stopped and released and the page holds no camera reference.
C28_CameraBracketsScan ==
  /\ (ev = "permissionsOk" /\ scanPc[1] = "scan") => camera # 0
  /\ ev = "scanDone" => (camera = 0 /\ liveCameras = {})

\* The steps in which handleStartVPS runs its catch.
StartVpsErrorEvents == {"permissionDenied", "permissionFailed", "startFailed", "cameraFailed",
                        "scanFalse", "scanRejected"}

\* C29 (combined page fed by VPSLocationSource): whenever Start VPS ends in its
\* error path (permission denied, source start failure, camera failure, scan
\* failure), the Start VPS button is enabled again.
C29_StartVpsEnabledAfterFailure ==
  ev \in StartVpsErrorEvents => ~dom.startDisabled

\* C5: the page holds one pose and one itinerary, and a new value replaces
\* the old one whole: after a pose callback the stored pose (and the position
\* shown) is the delivered pose, and after a successful route calculation the
\* page, MapMatching and the itinerary-info manager all hold the delivered
\* itinerary.
C5_NewValueReplacesOld ==
  /\ ev = "onUpdate" =>
       /\ gnssPose = delivered
       /\ dom.position = delivered.position
  /\ ev = "routeOk" =>
       /\ currentItinerary = delivered
       /\ mmItinerary = delivered
       /\ imItinerary = delivered

\* A pose without position has just replaced a pose with one: the user marker
\* still stands where the earlier pose put it.
C5_PoseReplacedByEmptyPose ==
  /\ ev = "onUpdate"
  /\ ~HasPosition(gnssPose)
  /\ userMarker # 0

C6_DisplayEqualsRender ==
  /\ dom.scanStatus = (IF isScanning THEN "Running" ELSE "Stopped")
  /\ dom.error = vpsError
  /\ dom.pose = vpsPose
  /\ dom.updates = vpsUpdateCount
  /\ dom.cameraShown = (camera # 0)

\* C8: the bootstrap constructs the map widget at most once per page load,
\* whether initializeMap is reached from the first check or from a polling tick.
C8_MapConstructedAtMostOnce == mapNew <= 1

\* A polling tick, not the first one, found the library and constructed the map.
C8_ConstructedByALaterTick ==
  /\ mapNew = 1
  /\ map # Null
  /\ ticks > 1
  /\ ~checkMapLibre

\* C9 as stated: once polling is over, a library that became available before
\* the timeout fired has given a map widget (the container existing), and a
\* library that became available only after the timeout has given none.
C9_AvailableBeforeTimeoutConstructs ==
  /\ (PollingOver /\ mapContainer /\ libLoadedAt \in {"initial", "polling"}) => map # Null
  /\ libLoadedAt = "late" => map = Null

\* C9 amended: once polling is over, there is a map widget exactly when the
\* container exists and the library was available at the first check or became
\* available ahead of a polling tick that ran before the timeout cleared the
\* interval; a library that arrives after the last tick that ran, before the
\* timeout or after it, gives no map widget.
C9_ConstructedIffSeenByATick ==
  /\ PollingOver =>
       (map # Null <=>
          /\ mapContainer
          /\ \/ libLoadedAt = "initial"
             \/ libLoadedAt = "polling" /\ libLoadedTick < ticks)
  /\ libLoadedAt = "late" => map = Null

\* Polling found a library that arrived after some ticks had run idle.
C9_FoundWhilePolling ==
  /\ PollingOver
  /\ libLoadedAt = "polling"
  /\ libLoadedTick > 0
  /\ map # Null

\* C7: whenever no handler is executing and the map has loaded, the route
\* layer is on the map exactly when the page has a current itinerary with at
\* least one coordinate, and it shows that itinerary.
C7_RouteLayerMatchesItinerary ==
  (map # Null /\ loadFired /\ mapLoaded) =>
    /\ hasLayer <=> currentItinerary.ncoords > 0
    /\ hasLayer => srcData = currentItinerary

====
